---- MODULE Spec2Model ----
\* A model of egui_replay's ReplayManager (src/src/replay_events.rs): the
\* record / replay state machine driven by the host through open_window,
\* close_window, on_frame_update and on_raw_input_update; and of the
\* ManualClock of src/src/clock.rs.
EXTENDS Integers, Sequences, FiniteSets, TLC

\* ------------------------------------------------------------------ bounds
\* Longest event batch the host hands to one on_raw_input_update call.
MaxBatch == 2
\* Cap on the number of frames held in frame_events by a recording.
MaxFrames == 3
\* The host's `now` values are drawn from 0..MaxTime (the wall clock may jump
\* backwards, so every call draws freely).
MaxTime == 1
\* Number of frames of the longest session a replay file holds.
MaxLoadFrames == 3
\* Cap on the pointer-move runs counted within one recording.
MaxRuns == 2
\* Longest frame list, and longest event list of one frame, handed to
\* apply_event_postprocessing when it is checked as a function.
MaxPostFrames == 3
MaxPostEvents == 2
\* Longest batch of the ticks that hold several toggle presses next to
\* another event.
MaxToggleBatch == 3
\* Width in bits of the signed integer that stands for the i64 of
\* NanoTimestamp and NanoDelta.
TimeBits == 4
\* Number of ManualClock values (the first and its clones) alive at once.
MaxClones == 2
\* Number of threads that share a ManualClock, each through its own clone,
\* and number of calls each of them makes.
MaxThreads == 2
MaxCalls == 2
\* Width in bits of the unit that stands for the byte (u8) of the binary
\* encoding of a timestamp.
ByteBits == 2

\* ------------------------------------------------------------------ events
\* egui::Event, reduced to the variants and fields the manager inspects.
Origin == <<0, 0>>
Corner == <<5, 5>>

KeyEvent(k, p) == [type |-> "Key", key |-> k, pressed |-> p, pos |-> Origin]
PointerMoved(p) == [type |-> "PointerMoved", key |-> "none", pressed |-> FALSE, pos |-> p]
PointerButton(p, pr) == [type |-> "PointerButton", key |-> "none", pressed |-> pr, pos |-> p]
MouseMoved == [type |-> "MouseMoved", key |-> "none", pressed |-> FALSE, pos |-> Origin]

F1Press == KeyEvent("F1", TRUE)
F1Release == KeyEvent("F1", FALSE)
KeyA == KeyEvent("A", TRUE)

\* The live events the host can supply.
InputEvents ==
    {F1Press, F1Release, KeyA, PointerMoved(Corner), PointerButton(Corner, TRUE), MouseMoved}

Batches == UNION {[1..n -> InputEvents] : n \in 0..MaxBatch}

Times == 0..MaxTime

FrameEvents(t, evs) == [time |-> t, events |-> evs]

is_f1_key(event) == event.type = "Key" /\ event.key = "F1"

is_key_pressed(event) == event.type = "Key" /\ event.pressed

is_pointer_moved(event) == event.type = "PointerMoved"

\* ------------------------------------------------------------------ files
\* A path is kept as the parts the code looks at: whether the file name starts
\* with UI_EVENTS_FILE_PREFIX, the text between prefix and extension, and the
\* extension.
UI_EVENTS_FILE_PREFIX == "egui_replay"

Path(pre, stamp, ext) == [prefix |-> pre, stamp |-> stamp, ext |-> ext]

\* String::new(): the replay_file of a fresh manager.
EmptyPath == Path("", <<>>, "")

\* NanoTimestamp::as_rfc3339 for the nanosecond counts of the model (all within
\* the first second of the epoch), as the ASCII codes of the text chrono's
\* to_rfc3339 renders: "1970-01-01T00:00:00", then no fraction for whole
\* seconds and else "." with 3, 6 or 9 digits (the fewest that show every
\* non-zero digit), then "+00:00".
EpochSecond == <<49, 57, 55, 48, 45, 48, 49, 45, 48, 49, 84, 48, 48, 58, 48, 48, 58, 48, 48>>

UtcOffset == <<43, 48, 48, 58, 48, 48>>

RECURSIVE Digits(_, _)
Digits(n, width) ==
    IF width = 0 THEN <<>> ELSE Append(Digits(n \div 10, width - 1), 48 + (n % 10))

SubSecond(nanos) ==
    IF nanos = 0 THEN <<>>
    ELSE IF nanos % 1000000 = 0 THEN <<46>> \o Digits(nanos \div 1000000, 3)
    ELSE IF nanos % 1000 = 0 THEN <<46>> \o Digits(nanos \div 1000, 6)
    ELSE <<46>> \o Digits(nanos, 9)

as_rfc3339(t) == EpochSecond \o SubSecond(t) \o UtcOffset

event_logfile(t, use_bincode) ==
    Path(UI_EVENTS_FILE_PREFIX, as_rfc3339(t), IF use_bincode THEN "bin" ELSE "json")

\* Files of the working directory the user can name in the text field.
NotesTxt == Path("notes", <<>>, "txt")
KnownPaths == {event_logfile(0, TRUE), event_logfile(1, FALSE), NotesTxt}

\* Lexicographic order of two sequences of character codes (a strict prefix is
\* smaller): the order of String.
RECURSIVE SeqLess(_, _)
SeqLess(a, b) ==
    IF b = <<>> THEN FALSE
    ELSE IF a = <<>> THEN TRUE
    ELSE IF Head(a) # Head(b) THEN Head(a) < Head(b)
    ELSE SeqLess(Tail(a), Tail(b))

\* String order of two paths that both start with the prefix: the RFC3339
\* text decides (no such text is a prefix of another, each ends in the
\* offset), then the extension ("bin" < "json").
PathLess(a, b) ==
    \/ SeqLess(a.stamp, b.stamp)
    \/ a.stamp = b.stamp /\ a.ext = "bin" /\ b.ext = "json"

\* get_first_ui_events_file taking the last path in String order.
get_first_ui_events_file_latest(dir) ==
    LET matching == {p \in dir : p.prefix = UI_EVENTS_FILE_PREFIX}
    IN IF matching = {} THEN [some |-> FALSE, path |-> EmptyPath]
       ELSE [some |-> TRUE,
             path |-> CHOOSE p \in matching : \A q \in matching : q = p \/ PathLess(q, p)]

\* get_first_ui_events_file: the smallest path among the directory's files
\* whose name starts with the prefix; None when there is none.
get_first_ui_events_file(dir) ==
    LET matching == {p \in dir : p.prefix = UI_EVENTS_FILE_PREFIX}
    IN IF matching = {} THEN [some |-> FALSE, path |-> EmptyPath]
       ELSE [some |-> TRUE,
             path |-> CHOOSE p \in matching : \A q \in matching : q = p \/ PathLess(p, q)]

\* The sessions a replay file can hold: the first n frames of a fixed recording
\* that contains a toggle-key press, a MouseMoved and a bare pointer button.
LoadFrame(k) ==
    FrameEvents(10 * k,
        IF k % 3 = 1 THEN <<PointerMoved(Origin), F1Press>>
        ELSE IF k % 3 = 2 THEN <<PointerMoved(Corner), MouseMoved>>
        ELSE <<PointerButton(Corner, TRUE), KeyA>>)

LoadableSessions == {[k \in 1..n |-> LoadFrame(k)] : n \in 0..MaxLoadFrames}

\* What the file system holds under the path that is opened: nothing, bytes
\* that do not decode, or a session in one of the two encodings.
FileMissing == [exists |-> FALSE, format |-> "none", frames |-> <<>>]
FileGarbage == [exists |-> TRUE, format |-> "garbage", frames |-> <<>>]
FileOf(fmt, s) == [exists |-> TRUE, format |-> fmt, frames |-> s]
FileStates ==
    {FileMissing, FileGarbage}
        \cup {FileOf("bin", s) : s \in LoadableSessions}
        \cup {FileOf("json", [k \in 1..MaxLoadFrames |-> LoadFrame(k)])}

\* load_replay with the extension check lost: the content decides the decoder.
load_replay_any_extension(file_name, file) ==
    IF file_name = EmptyPath \/ ~file.exists THEN [ok |-> FALSE, frames |-> <<>>]
    ELSE [ok |-> file.format \in {"bin", "json"}, frames |-> file.frames]

\* load_replay: Ok(frames) or Err.
load_replay(file_name, file) ==
    IF file_name = EmptyPath \/ ~file.exists THEN [ok |-> FALSE, frames |-> <<>>]
    ELSE IF file_name.ext = "bin" THEN [ok |-> file.format = "bin", frames |-> IF file.format = "bin" THEN file.frames ELSE <<>>]
    ELSE IF file_name.ext = "json" THEN [ok |-> file.format = "json", frames |-> IF file.format = "json" THEN file.frames ELSE <<>>]
    ELSE [ok |-> FALSE, frames |-> <<>>]

\* What the file system does with the file save_replay asks for: create
\* fails (no such directory, no permission), the file is created and the write
\* into it fails (disk full), or both succeed.
DiskOk == [create |-> TRUE, write |-> TRUE]
DiskNoCreate == [create |-> FALSE, write |-> FALSE]
DiskNoWrite == [create |-> TRUE, write |-> FALSE]
Disks == {DiskOk, DiskNoCreate, DiskNoWrite}

\* A file save_replay left behind: the session in the encoding of the
\* extension, or bytes that do not decode (none, or the part written before
\* the error).
SessionFile(file_name, frames) ==
    [file_name |-> file_name, format |-> file_name.ext, frames |-> frames]
BrokenFile(file_name) == [file_name |-> file_name, format |-> "garbage", frames |-> <<>>]

\* save_replay: the files it leaves behind, and whether it panicked.
\* File::create(..).unwrap() panics before anything exists; the encoders'
\* unwrap() and the unknown-extension panic! leave the created file behind.
save_replay(file_name, frames, disk) ==
    IF ~disk.create THEN [panicked |-> TRUE, files |-> <<>>]
    ELSE IF file_name.ext \in {"bin", "json"} /\ disk.write
    THEN [panicked |-> FALSE, files |-> <<SessionFile(file_name, frames)>>]
    ELSE [panicked |-> TRUE, files |-> <<BrokenFile(file_name)>>]

\* ------------------------------------------------------- postprocessing
\* The Option<(bool, FrameEvents)> current_group of apply_event_postprocessing.
NoGroup == [some |-> FALSE, pointer |-> FALSE, frame |-> FrameEvents(0, <<>>)]
SomeGroup(is_pointer, frame) == [some |-> TRUE, pointer |-> is_pointer, frame |-> frame]

\* merge_events stamping the group with the time of every frame that adds an
\* event to it, so that a group ends with the time of its last event.
RECURSIVE merge_events_last_time(_, _, _)
merge_events_last_time(acc, time, events) ==
    IF events = <<>> THEN acc
    ELSE LET event == Head(events)
             event_is_pointer == is_pointer_moved(event)
             next ==
                 IF acc.group.some /\ acc.group.pointer = event_is_pointer
                 THEN [acc EXCEPT !.group.frame.events = Append(@, event),
                                  !.group.frame.time = time]
                 ELSE IF acc.group.some
                 THEN [merged |-> Append(acc.merged, acc.group.frame),
                       group |-> SomeGroup(event_is_pointer, FrameEvents(time, <<event>>))]
                 ELSE [acc EXCEPT !.group = SomeGroup(event_is_pointer, FrameEvents(time, <<event>>))]
         IN merge_events_last_time(next, time, Tail(events))

\* The inner loop: the events of one frame, in order, against the accumulator
\* acc = [merged |-> merged_frames, group |-> current_group].
RECURSIVE merge_events(_, _, _)
merge_events(acc, time, events) ==
    IF events = <<>> THEN acc
    ELSE LET event == Head(events)
             event_is_pointer == is_pointer_moved(event)
             next ==
                 IF acc.group.some /\ acc.group.pointer = event_is_pointer
                 THEN [acc EXCEPT !.group.frame.events = Append(@, event)]
                 ELSE IF acc.group.some
                 THEN [merged |-> Append(acc.merged, acc.group.frame),
                       group |-> SomeGroup(event_is_pointer, FrameEvents(time, <<event>>))]
                 ELSE [acc EXCEPT !.group = SomeGroup(event_is_pointer, FrameEvents(time, <<event>>))]
         IN merge_events(next, time, Tail(events))

\* merge_frames closing the current group at the end of every frame.
RECURSIVE merge_frames_per_frame(_, _)
merge_frames_per_frame(acc, frames) ==
    IF frames = <<>> THEN acc
    ELSE LET done == merge_events(acc, Head(frames).time, Head(frames).events)
             flushed == IF done.group.some
                        THEN [merged |-> Append(done.merged, done.group.frame), group |-> NoGroup]
                        ELSE done
         IN merge_frames_per_frame(flushed, Tail(frames))

\* The outer loop over the frames after the first.
RECURSIVE merge_frames(_, _)
merge_frames(acc, frames) ==
    IF frames = <<>> THEN acc
    ELSE merge_frames(merge_events(acc, Head(frames).time, Head(frames).events), Tail(frames))

\* apply_event_postprocessing with the flush of the pending group lost.
apply_event_postprocessing_no_flush(frames) ==
    merge_frames([merged |-> <<frames[1]>>, group |-> NoGroup], Tail(frames)).merged

\* apply_event_postprocessing with the first frame opened as the current
\* group instead of being pushed.
apply_event_postprocessing_groups_first(frames) ==
    LET first == SomeGroup(frames[1].events # <<>> /\ is_pointer_moved(frames[1].events[1]),
                           frames[1])
        acc == merge_frames([merged |-> <<>>, group |-> first], Tail(frames))
    IN Append(acc.merged, acc.group.frame)

\* apply_event_postprocessing with the first frame pushed after the loop
\* instead of before it.
apply_event_postprocessing_first_last(frames) ==
    LET acc == merge_frames([merged |-> <<>>, group |-> NoGroup], Tail(frames))
        merged == IF acc.group.some THEN Append(acc.merged, acc.group.frame) ELSE acc.merged
    IN Append(merged, frames[1])

\* apply_event_postprocessing, for a non-empty frame list (frames[0] panics on
\* an empty one; the caller models that).
apply_event_postprocessing(frames) ==
    LET acc == merge_frames([merged |-> <<frames[1]>>, group |-> NoGroup], Tail(frames))
    IN IF acc.group.some THEN Append(acc.merged, acc.group.frame) ELSE acc.merged

\* ------------------------------------------------------------------ state
VARIABLES
    is_window_open,
    is_replaying,
    is_recording,
    frame_events,
    replay_index,
    replay_file,
    should_lookup_replay,
    record_use_bincode,
    record_apply_postprocessing,
    simplify_pointer_events,
    record_is_pointer_moving,
    \* the assignment the last call made to raw_input.events, if any
    raw_input_write,
    \* the files written by the last call, in order
    storage_writes,
    \* the process has panicked (it makes no further step)
    panicked,
    \* the last call and its inputs
    last_call,
    \* the session read by the last successful load
    loaded_session,
    \* the events pushed to an event batch since the last recording start
    recorded_log,
    \* the pointer-move runs of the input received while recording, counted
    \* since the last recording start in two ways (see RunsAfter)
    pointer_runs,
    \* the `now` of the latest on_raw_input_update call (kept only by the
    \* specification whose host clock never runs backwards)
    host_now,
    \* the argument and the result of a call of apply_event_postprocessing
    post_frames,
    post_merged,
    \* the build adds overflow checks to integer arithmetic (a debug build
    \* does, a release build does not, unless the profile says otherwise)
    overflow_checks,
    \* the current_time field of every ManualClock value made so far: the
    \* mutex its Arc points to
    current_time,
    \* the mutexes allocated so far: the NanoTimestamp each one guards, and
    \* whether a thread panicked while holding it
    mutexes,
    \* the last call on a ManualClock and what it returned
    clock_call,
    \* the sum, as a mathematical integer, of the durations of the
    \* advance_by calls that returned
    deltas_sum,
    \* the value the latest now() that returned gave
    last_read,
    \* the threads that share the ManualClock: where each one stands in the
    \* call it is making
    threads,
    \* the writes to the shared clock: how many were applied, how many had
    \* been applied when the last writer returned, whether one was an
    \* advance_to
    versions,
    \* the start_time of the Stopwatch, the duration of the Timer around it
    start_time,
    timer_duration,
    \* the last call on the Timer or its Stopwatch and what it returned
    timer_call,
    \* what is_timeout has returned since the Timer was made or last reset,
    \* and where the clock stood then
    timer_log,
    \* the arguments and the result of a call of a function of timestamp.rs
    calc_input,
    calc_output

settings == <<record_use_bincode, record_apply_postprocessing, simplify_pointer_events>>

manager == <<is_window_open, is_replaying, is_recording, frame_events, replay_index,
             replay_file, should_lookup_replay, record_is_pointer_moving>>

\* The variables of the function calls checked on their own.
post_vars == <<post_frames, post_merged>>

\* The variables of the ManualClock.
clock_vars == <<overflow_checks, current_time, mutexes, clock_call, deltas_sum, last_read>>

\* The variables of the threads on a ManualClock, of the Timer, and of the
\* functions of timestamp.rs checked on their own.
thread_vars == <<threads, versions>>

timer_vars == <<start_time, timer_duration, timer_call, timer_log>>

calc_vars == <<calc_input, calc_output>>

vars == <<manager, settings, raw_input_write, storage_writes, panicked, last_call,
          loaded_session, recorded_log, pointer_runs, host_now, post_vars, clock_vars,
          thread_vars, timer_vars, calc_vars>>

\* What a call does to the host's raw_input.events: leaves it alone, or
\* replaces it.
NoWrite == [some |-> FALSE, events |-> <<>>]
WriteOf(events) == [some |-> TRUE, events |-> events]

\* raw_input.events after a call that got `events` from the host.
RawInputAfter(events) == IF raw_input_write.some THEN raw_input_write.events ELSE events

\* The observer of pointer-move runs in the input of a recording. `any` reads
\* a run as ended by every event that is not a pointer-move; `kept` reads it
\* as ended only by an event that is neither a pointer-move, nor MouseMoved,
\* nor an F1 key event (the events should_record_event drops before it touches
\* the flag). Both start afresh with every recording: a run is a run of the
\* input received while recording. open says that the last event seen belongs
\* to a run, runs counts the runs begun in the current recording (0 when none
\* is on).
NoRuns == [any_open |-> FALSE, any_runs |-> 0, kept_open |-> FALSE, kept_runs |-> 0]

RunsAtStart(runs) ==
    [runs EXCEPT !.any_open = FALSE, !.any_runs = 0, !.kept_open = FALSE, !.kept_runs = 0]

RunsAfter(runs, event) ==
    IF is_pointer_moved(event)
    THEN [any_open |-> TRUE,
          any_runs |-> runs.any_runs + (IF runs.any_open THEN 0 ELSE 1),
          kept_open |-> TRUE,
          kept_runs |-> runs.kept_runs + (IF runs.kept_open THEN 0 ELSE 1)]
    ELSE [runs EXCEPT !.any_open = FALSE,
                      !.kept_open = IF event.type = "MouseMoved" \/ is_f1_key(event)
                                    THEN @ ELSE FALSE]

\* ------------------------------------------------------------------ new
\* ReplayManager::new, and nothing called yet.
new ==
    /\ is_window_open = FALSE
    /\ is_replaying = FALSE
    /\ is_recording = FALSE
    /\ frame_events = <<>>
    /\ replay_index = 0
    /\ replay_file = EmptyPath
    /\ should_lookup_replay = TRUE
    /\ record_use_bincode = TRUE
    /\ record_apply_postprocessing = TRUE
    /\ simplify_pointer_events = TRUE
    /\ record_is_pointer_moving = FALSE
    /\ raw_input_write = NoWrite
    /\ storage_writes = <<>>
    /\ panicked = FALSE
    /\ last_call = [op |-> "new"]
    /\ loaded_session = <<>>
    /\ recorded_log = <<>>
    /\ pointer_runs = NoRuns
    /\ host_now = 0

\* No call of apply_event_postprocessing on its own.
NoPostCall == [called |-> FALSE, panicked |-> FALSE, frames |-> <<>>]

\* No read of a clock yet.
NoRead == [some |-> FALSE, value |-> 0]

\* No ManualClock made.
NoClock ==
    /\ overflow_checks = FALSE
    /\ current_time = <<>>
    /\ mutexes = <<>>
    /\ clock_call = [op |-> "none"]
    /\ deltas_sum = 0
    /\ last_read = NoRead

\* No thread on the clock, and no write to it.
NoVersions == [applied |-> 0, returned |-> 0, set |-> FALSE]

NoThreads ==
    /\ threads = <<>>
    /\ versions = NoVersions

\* No Timer made. The log of a Timer: is_timeout has returned true since the
\* Timer was made or last reset; the clock's value and the sum of the
\* advance_by durations at that moment; reset has returned.
NoLog == [timed_out |-> FALSE, time |-> 0, sum |-> 0, was_reset |-> FALSE]

NoTimer ==
    /\ start_time = 0
    /\ timer_duration = 0
    /\ timer_call = [op |-> "none"]
    /\ timer_log = NoLog

\* No call of a function of timestamp.rs on its own.
NoCalcCall == [called |-> FALSE]

NoCalc ==
    /\ calc_input = [op |-> "none"]
    /\ calc_output = NoCalcCall

Init ==
    /\ new
    /\ post_frames = <<>>
    /\ post_merged = NoPostCall
    /\ NoClock
    /\ NoThreads
    /\ NoTimer
    /\ NoCalc

\* ------------------------------------------------------------------ window
open_window ==
    /\ ~panicked
    /\ is_window_open' = TRUE
    /\ is_replaying' = FALSE
    /\ is_recording' = FALSE
    /\ frame_events' = <<>>
    /\ replay_index' = 0
    /\ should_lookup_replay' = TRUE
    /\ storage_writes' = <<>>
    /\ raw_input_write' = NoWrite
    /\ last_call' = [op |-> "open_window"]
    /\ loaded_session' = <<>>
    /\ recorded_log' = <<>>
    /\ pointer_runs' = RunsAtStart(pointer_runs)
    /\ UNCHANGED <<replay_file, record_is_pointer_moving, settings, panicked>>
    /\ UNCHANGED <<host_now, post_vars, clock_vars, thread_vars, timer_vars, calc_vars>>

\* A close_window that closes the window and lets a replay go on.
CloseWindowEffect_keeps_replaying ==
    /\ is_window_open' = FALSE
    /\ is_replaying' = is_replaying
    /\ is_recording' = FALSE
    /\ frame_events' = <<>>
    /\ replay_index' = 0
    /\ loaded_session' = <<>>
    /\ recorded_log' = <<>>
    /\ pointer_runs' = RunsAtStart(pointer_runs)

\* A close_window that clears the buffer and keeps the replay index.
CloseWindowEffect_keeps_replay_index ==
    /\ is_window_open' = FALSE
    /\ is_replaying' = FALSE
    /\ is_recording' = FALSE
    /\ frame_events' = <<>>
    /\ replay_index' = replay_index
    /\ loaded_session' = <<>>
    /\ recorded_log' = <<>>
    /\ pointer_runs' = RunsAtStart(pointer_runs)

\* The field updates of close_window, shared by its three callers (the
\* session it discards is forgotten by the two history variables too).
CloseWindowEffect ==
    /\ is_window_open' = FALSE
    /\ is_replaying' = FALSE
    /\ is_recording' = FALSE
    /\ frame_events' = <<>>
    /\ replay_index' = 0
    /\ loaded_session' = <<>>
    /\ recorded_log' = <<>>
    /\ pointer_runs' = RunsAtStart(pointer_runs)

close_window ==
    /\ ~panicked
    /\ CloseWindowEffect
    /\ storage_writes' = <<>>
    /\ raw_input_write' = NoWrite
    /\ last_call' = [op |-> "close_window"]
    /\ UNCHANGED <<replay_file, should_lookup_replay, record_is_pointer_moving, settings,
                   panicked>>
    /\ UNCHANGED <<host_now, post_vars, clock_vars, thread_vars, timer_vars, calc_vars>>

\* ------------------------------------------------------------ on_frame_update
\* dir: the files of the working directory; edit: the text typed into the
\* path field ([some |-> FALSE] for none); start, close: the two buttons'
\* clicked(); file: what the file system holds under the path opened.
on_frame_update(dir, edit, start, close, file) ==
    /\ ~panicked
    /\ storage_writes' = <<>>
    /\ raw_input_write' = NoWrite
    /\ UNCHANGED <<record_is_pointer_moving, settings, panicked>>
    /\ UNCHANGED <<host_now, post_vars, clock_vars, thread_vars, timer_vars, calc_vars>>
    /\ IF ~is_window_open
       THEN /\ last_call' = [op |-> "on_frame_update", start |-> FALSE, close |-> FALSE,
                             file_exists |-> FALSE, file_format |-> "none",
                             dir |-> {}, edited |-> FALSE]
            /\ UNCHANGED <<is_window_open, is_replaying, is_recording, frame_events,
                           replay_index, replay_file, should_lookup_replay, loaded_session,
                           recorded_log, pointer_runs>>
       ELSE LET found == get_first_ui_events_file(dir)
                looked == IF should_lookup_replay /\ found.some THEN found.path ELSE replay_file
                typed == IF ~is_replaying /\ edit.some THEN edit.path ELSE looked
                ui_events == load_replay(typed, file)
                clicked_start == ~is_replaying /\ start
                started == clicked_start /\ ui_events.ok
                closed == ~is_replaying /\ close
            IN /\ last_call' = [op |-> "on_frame_update", start |-> clicked_start,
                                close |-> closed, file_exists |-> file.exists,
                                file_format |-> file.format,
                                dir |-> IF should_lookup_replay THEN dir ELSE {},
                                edited |-> ~is_replaying /\ edit.some]
               /\ replay_file' = typed
               /\ should_lookup_replay' = FALSE
               /\ IF closed
                  THEN CloseWindowEffect
                  ELSE /\ is_window_open' = is_window_open
                       /\ is_recording' = is_recording
                       /\ is_replaying' = (is_replaying \/ started)
                       /\ frame_events' = IF started THEN ui_events.frames ELSE frame_events
                       /\ replay_index' = IF started THEN 0 ELSE replay_index
                       /\ loaded_session' = IF started THEN ui_events.frames ELSE loaded_session
                       /\ UNCHANGED <<recorded_log, pointer_runs>>

\* The inputs on_frame_update can get: the directory is listed only when the
\* lookup is due, the widgets take input only while they are shown (window
\* open, not replaying), and the file is read only on 'Start replay'.
NoEdit == [some |-> FALSE, path |-> EmptyPath]
EditTo(p) == [some |-> TRUE, path |-> p]

OnFrameUpdateIn(dirs, edits, files) ==
    \E dir \in (IF is_window_open /\ should_lookup_replay THEN dirs ELSE {{}}) :
        \/ /\ ~is_window_open \/ is_replaying
           /\ on_frame_update(dir, NoEdit, FALSE, FALSE, FileMissing)
        \/ /\ is_window_open /\ ~is_replaying
           /\ \E edit \in edits, close \in BOOLEAN :
                \/ on_frame_update(dir, edit, FALSE, close, FileMissing)
                \/ \E file \in files : on_frame_update(dir, edit, TRUE, close, file)

\* ------------------------------------------------------- on_raw_input_update
\* should_record_event with the F1 test lost.
should_record_event_keeps_f1(moving, event) ==
    IF event.type = "MouseMoved" THEN [record |-> FALSE, moving |-> moving]
    ELSE IF is_pointer_moved(event)
    THEN IF moving THEN [record |-> FALSE, moving |-> moving]
         ELSE [record |-> TRUE, moving |-> TRUE]
    ELSE [record |-> TRUE, moving |-> FALSE]

\* should_record_event: whether the event is recorded, and the new value of
\* record_is_pointer_moving.
should_record_event(moving, event) ==
    IF event.type = "MouseMoved" THEN [record |-> FALSE, moving |-> moving]
    ELSE IF is_f1_key(event) THEN [record |-> FALSE, moving |-> moving]
    ELSE IF simplify_pointer_events
    THEN IF is_pointer_moved(event)
         THEN IF moving THEN [record |-> FALSE, moving |-> moving]
              ELSE [record |-> TRUE, moving |-> TRUE]
         ELSE [record |-> TRUE, moving |-> FALSE]
    ELSE [record |-> TRUE, moving |-> moving]

\* The frame seeded when a recording starts.
AnchorFrame(t) == FrameEvents(t, <<PointerMoved(Origin)>>)

\* The running state of the event loop: the fields it updates, its local
\* event_batch, the files written, whether it has panicked, and the log of
\* the events pushed since the last recording start.
LoopState(rec, frames, moving, log, runs) ==
    [is_recording |-> rec, frame_events |-> frames, moving |-> moving,
     event_batch |-> <<>>, writes |-> <<>>, panicked |-> FALSE, log |-> log, runs |-> runs]

\* start_recording with the clear() lost.
start_recording_without_clear(st, t) ==
    [st EXCEPT !.is_recording = TRUE, !.frame_events = Append(@, AnchorFrame(t)), !.log = <<>>,
               !.runs = RunsAtStart(@)]

\* The branch of an F1 press that turns recording on.
start_recording(st, t) ==
    [st EXCEPT !.is_recording = TRUE, !.frame_events = <<AnchorFrame(t)>>, !.log = <<>>,
               !.runs = RunsAtStart(@)]

\* The branch of an F1 press that turns recording off: postprocess and save.
\* apply_event_postprocessing reads frames[0], which panics on an empty list
\* (the buffer was moved out by mem::take before); save_replay panics when
\* the file cannot be created or written.
stop_recording(st, t, disk) ==
    LET file_name == event_logfile(t, record_use_bincode)
    IN IF record_apply_postprocessing /\ st.frame_events = <<>>
       THEN [st EXCEPT !.is_recording = FALSE, !.panicked = TRUE, !.runs = RunsAtStart(@)]
       ELSE LET frames == IF record_apply_postprocessing
                          THEN apply_event_postprocessing(st.frame_events)
                          ELSE st.frame_events
                saved == save_replay(file_name, frames, disk)
            IN [st EXCEPT !.is_recording = FALSE,
                          !.frame_events = frames,
                          !.writes = @ \o saved.files,
                          !.panicked = saved.panicked,
                          !.runs = RunsAtStart(@)]

\* record_event with the fake pointer-move pushed after the button event.
record_event_fake_after(st, event) ==
    IF ~st.is_recording THEN st
    ELSE LET fake == IF event.type = "PointerButton" /\ simplify_pointer_events
                     THEN <<PointerMoved(event.pos)>> ELSE <<>>
             r == should_record_event(st.moving, event)
             pushed == (IF r.record THEN <<event>> ELSE <<>>) \o fake
         IN [st EXCEPT !.event_batch = @ \o pushed, !.moving = r.moving, !.log = @ \o pushed,
                       !.runs = RunsAfter(@, event)]

\* The part of the loop body that records the event while recording.
record_event(st, event) ==
    IF ~st.is_recording THEN st
    ELSE LET fake == IF event.type = "PointerButton" /\ simplify_pointer_events
                     THEN <<PointerMoved(event.pos)>> ELSE <<>>
             r == should_record_event(st.moving, event)
             pushed == fake \o (IF r.record THEN <<event>> ELSE <<>>)
         IN [st EXCEPT !.event_batch = @ \o pushed, !.moving = r.moving, !.log = @ \o pushed,
                       !.runs = RunsAfter(@, event)]

\* One iteration of the loop over raw_input.events.
loop_body(st, event, t, disk) ==
    LET toggled ==
            IF is_f1_key(event) /\ is_key_pressed(event)
            THEN IF ~st.is_recording THEN start_recording(st, t) ELSE stop_recording(st, t, disk)
            ELSE st
    IN IF toggled.panicked THEN toggled ELSE record_event(toggled, event)

RECURSIVE event_loop(_, _, _, _)
event_loop(st, events, t, disk) ==
    IF events = <<>> \/ st.panicked THEN st
    ELSE event_loop(loop_body(st, Head(events), t, disk), Tail(events), t, disk)

\* The number of toggle-key presses in a batch.
RECURSIVE CountPresses(_)
CountPresses(events) ==
    IF events = <<>> THEN 0
    ELSE (IF is_f1_key(Head(events)) /\ is_key_pressed(Head(events)) THEN 1 ELSE 0)
         + CountPresses(Tail(events))

\* The number of events in a batch that are F1 key releases or MouseMoved.
RECURSIVE CountDropped(_)
CountDropped(events) ==
    IF events = <<>> THEN 0
    ELSE (IF Head(events) \in {F1Release, MouseMoved} THEN 1 ELSE 0) + CountDropped(Tail(events))

\* ReplayedEvents reading the frames from the end.
ReplayedEventsBackwards(frames, index) == frames[Len(frames) - index].events

\* The events the replay branch hands to the host: those of the frame at
\* replay_index.
ReplayedEvents(frames, index) == frames[index + 1].events

\* The recording loop taking the toggle presses out of the host's batch.
recording_write_consumes_toggle(events) ==
    IF CountPresses(events) = 0 THEN NoWrite
    ELSE WriteOf(SelectSeq(events, LAMBDA e : ~(is_f1_key(e) /\ is_key_pressed(e))))

\* What the recording loop does to raw_input.events: it iterates over a
\* shared borrow and clones what it records, so it assigns nothing.
recording_write(events) == NoWrite

\* The tick is consumed by replay.
ReplayDue == is_replaying /\ replay_index < Len(frame_events)

\* t, events: the call's now and raw_input.events; disk: what the file system
\* does if the call saves a recording.
on_raw_input_update(t, events, disk) ==
    /\ ~panicked
    /\ last_call' = [op |-> "on_raw_input_update", now |-> t, len |-> Len(events),
                     presses |-> CountPresses(events), dropped |-> CountDropped(events),
                     replayed |-> ReplayDue]
    /\ UNCHANGED <<replay_file, should_lookup_replay, settings>>
    /\ UNCHANGED <<post_vars, clock_vars, thread_vars, timer_vars, calc_vars>>
    /\ IF ReplayDue
       THEN /\ raw_input_write' = WriteOf(ReplayedEvents(frame_events, replay_index))
            /\ storage_writes' = <<>>
            /\ IF replay_index + 1 >= Len(frame_events)
               THEN CloseWindowEffect
               ELSE /\ frame_events' = [frame_events EXCEPT ![replay_index + 1].events = <<>>]
                    /\ replay_index' = replay_index + 1
                    /\ UNCHANGED <<is_window_open, is_replaying, is_recording, loaded_session,
                                   recorded_log, pointer_runs>>
            /\ UNCHANGED <<record_is_pointer_moving, panicked>>
       ELSE LET st == event_loop(LoopState(is_recording, frame_events, record_is_pointer_moving,
                                           IF is_recording THEN recorded_log ELSE <<>>,
                                           pointer_runs),
                                 events, t, disk)
                frames == IF st.event_batch # <<>> /\ ~st.panicked
                          THEN Append(st.frame_events, FrameEvents(t, st.event_batch))
                          ELSE st.frame_events
            IN /\ Len(frames) <= MaxFrames
               /\ st.runs.any_runs <= MaxRuns
               /\ raw_input_write' = recording_write(events)
               /\ is_recording' = st.is_recording
               /\ frame_events' = frames
               /\ record_is_pointer_moving' = st.moving
               /\ storage_writes' = st.writes
               /\ panicked' = st.panicked
               /\ recorded_log' = st.log
               /\ pointer_runs' = st.runs
               /\ UNCHANGED <<is_window_open, is_replaying, replay_index, loaded_session>>

\* The file systems that make a difference to a call: save_replay runs only
\* in the recording loop, on a toggle press.
SavingDisks(events) == IF ReplayDue \/ CountPresses(events) = 0 THEN {DiskOk} ELSE Disks

\* The host's calls with any `now` of times (its wall clock may jump back).
OnRawInputUpdateIn(times, batches) ==
    \E t \in times, events \in batches :
        \E disk \in SavingDisks(events) :
            on_raw_input_update(t, events, disk) /\ UNCHANGED host_now

\* ------------------------------------------------------------ specifications
\* The mode machine: every operation with every input of on_frame_update, and
\* ticks whose batches are drawn from the toggle press and one ordinary key.
ModeBatches == UNION {[1..n -> {F1Press, KeyA}] : n \in 0..MaxBatch}

\* Its directories: one without a recording, one with a single recording next
\* to an unrelated file, and one with every known file (SpecLookup has them
\* all).
ModeDirs == {{}, {NotesTxt, event_logfile(1, FALSE)}, KnownPaths}

OnFrameUpdate ==
    OnFrameUpdateIn(ModeDirs, {NoEdit} \cup {EditTo(p) : p \in KnownPaths}, FileStates)

OnRawInputUpdate == OnRawInputUpdateIn(Times, ModeBatches)

Next ==
    \/ open_window
    \/ close_window
    \/ OnFrameUpdate
    \/ OnRawInputUpdate

Spec == Init /\ [][Next]_vars

\* A replay left to itself: until a replay starts the operations are those of
\* Spec; from then on the user does nothing (no window operation, no key in
\* a batch, no click: the modal shows no button while replaying) and the host
\* keeps drawing frames and keeps calling on_raw_input_update, which is the
\* step the fairness condition is about.
ReplayTick == is_replaying /\ OnRawInputUpdateIn(Times, {<<>>})

BeforeReplay ==
    /\ ~is_replaying
    /\ \/ open_window
       \/ close_window
       \/ OnRawInputUpdate

NextReplay ==
    \/ BeforeReplay
    \/ OnFrameUpdate
    \/ ReplayTick

SpecReplay == Init /\ [][NextReplay]_vars /\ WF_vars(ReplayTick)

\* The recorder: ticks with every batch of live events (all at time 0), the
\* window operations, and on_frame_update loading from one binary file.
RecFiles == {FileMissing, FileOf("bin", <<LoadFrame(1)>>)}

OnFrameUpdateRec ==
    OnFrameUpdateIn({{}}, {EditTo(event_logfile(0, TRUE))}, RecFiles)

OnRawInputUpdateRec == OnRawInputUpdateIn({0}, Batches)

NextRec ==
    \/ open_window
    \/ close_window
    \/ OnFrameUpdateRec
    \/ OnRawInputUpdateRec

SpecRec == Init /\ [][NextRec]_vars

\* The recorder under batches long enough to hold an event, the press that
\* stops a recording and the press that starts the next one: up to
\* MaxToggleBatch events, each the toggle press or an ordinary key.
ToggleBatches == UNION {[1..n -> {F1Press, KeyA}] : n \in 0..MaxToggleBatch}

OnRawInputUpdateToggle == OnRawInputUpdateIn({0}, ToggleBatches)

NextToggle ==
    \/ open_window
    \/ close_window
    \/ OnFrameUpdateRec
    \/ OnRawInputUpdateToggle

SpecToggle == Init /\ [][NextToggle]_vars

\* The recorder under a host whose `now` never decreases from one tick to the
\* next: batches of the toggle press, a key and a pointer-move.
MonoBatches == UNION {[1..n -> {F1Press, KeyA, PointerMoved(Corner)}] : n \in 0..MaxBatch}

OnRawInputUpdateMono ==
    \E t \in Times, events \in MonoBatches :
        \E disk \in SavingDisks(events) :
            /\ t >= host_now
            /\ on_raw_input_update(t, events, disk)
            /\ host_now' = t

NextMono ==
    \/ open_window
    \/ close_window
    \/ OnFrameUpdateRec
    \/ OnRawInputUpdateMono

SpecMono == Init /\ [][NextMono]_vars

\* The file lookup: the window operations and on_frame_update over every
\* directory made of recordings saved at 0 ns, 1 ns, 1000 ns (binary and JSON)
\* and an unrelated file; ticks carry at most the toggle press.
LookupPaths ==
    {event_logfile(0, TRUE), event_logfile(1, FALSE), event_logfile(1, TRUE),
     event_logfile(1000, TRUE), NotesTxt}

OnFrameUpdateLookup ==
    OnFrameUpdateIn(SUBSET LookupPaths,
                    {NoEdit, EditTo(NotesTxt), EditTo(event_logfile(1000, TRUE))},
                    RecFiles)

OnRawInputUpdateLookup == OnRawInputUpdateIn({0}, {<<>>, <<F1Press>>})

NextLookup ==
    \/ open_window
    \/ close_window
    \/ OnFrameUpdateLookup
    \/ OnRawInputUpdateLookup

SpecLookup == Init /\ [][NextLookup]_vars

\* apply_event_postprocessing as a function: one call on any frame list of up
\* to MaxPostFrames frames of up to MaxPostEvents events each.
PostEvents == {PointerMoved(Origin), PointerMoved(Corner), KeyA, PointerButton(Corner, TRUE)}

PostBodies == UNION {[1..n -> PostEvents] : n \in 0..MaxPostEvents}

PostFrames == {FrameEvents(t, evs) : t \in Times, evs \in PostBodies}

PostInputs == UNION {[1..n -> PostFrames] : n \in 0..MaxPostFrames}

InitPost ==
    /\ new
    /\ post_frames \in PostInputs
    /\ post_merged = NoPostCall
    /\ NoClock
    /\ NoThreads
    /\ NoTimer
    /\ NoCalc

\* The call: frames[0] panics on an empty list.
postprocess ==
    /\ ~post_merged.called
    /\ post_merged' =
           IF post_frames = <<>>
           THEN [called |-> TRUE, panicked |-> TRUE, frames |-> <<>>]
           ELSE [called |-> TRUE, panicked |-> FALSE,
                 frames |-> apply_event_postprocessing(post_frames)]
    /\ UNCHANGED <<manager, settings, raw_input_write, storage_writes, panicked, last_call,
                   loaded_session, recorded_log, pointer_runs, host_now, post_frames,
                   clock_vars, thread_vars, timer_vars, calc_vars>>

NextPost == postprocess

SpecPost == InitPost /\ [][NextPost]_vars

\* ------------------------------------------------------------------ clock
\* The range of the integer under NanoTimestamp and NanoDelta.
I64Min == -(2 ^ (TimeBits - 1))
I64Max == 2 ^ (TimeBits - 1) - 1
I64 == I64Min..I64Max

\* The two's complement value of a mathematical integer.
Wrap(x) == ((x - I64Min) % (2 ^ TimeBits)) + I64Min

\* `self.0 + rhs.0` of Add<NanoDelta> for NanoTimestamp: out of range, the
\* addition panics in a build with overflow checks and wraps in one without.
add(time, duration) ==
    IF time + duration \in I64
    THEN [ok |-> TRUE, value |-> time + duration]
    ELSE IF overflow_checks
         THEN [ok |-> FALSE, value |-> time]
         ELSE [ok |-> TRUE, value |-> Wrap(time + duration)]

\* The history of advance_by is kept up to one full turn of the integer.
MaxSum == 2 ^ TimeBits

\* ManualClock::new in either build, and no ReplayManager call.
InitClock ==
    /\ new
    /\ post_frames = <<>>
    /\ post_merged = NoPostCall
    /\ overflow_checks \in BOOLEAN
    /\ current_time = <<1>>
    /\ mutexes = <<[time |-> 0, poisoned |-> FALSE]>>
    /\ clock_call = [op |-> "new"]
    /\ deltas_sum = 0
    /\ last_read = NoRead
    /\ NoThreads
    /\ NoTimer
    /\ NoCalc

ManagerIdle ==
    UNCHANGED <<manager, settings, raw_input_write, storage_writes, panicked, last_call,
                loaded_session, recorded_log, pointer_runs, host_now, post_vars>>

\* A call on the clock from the one thread that owns it.
ClockOnly ==
    /\ ManagerIdle
    /\ UNCHANGED <<thread_vars, timer_vars, calc_vars>>

\* #[derive(Clone)]: the clone's Arc points to the same mutex.
clone(c) ==
    /\ Len(current_time) < MaxClones
    /\ current_time' = Append(current_time, current_time[c])
    /\ clock_call' = [op |-> "clone", clock |-> c]
    /\ UNCHANGED <<overflow_checks, mutexes, deltas_sum, last_read>>
    /\ ClockOnly

\* advance_by through clock c, from any thread. The assertion comes before
\* the lock; lock().unwrap() panics on a poisoned mutex; a panic of the
\* addition happens with the guard held and poisons the mutex. A panic ends
\* the calling thread only.
advance_by(c, duration) ==
    LET m == current_time[c]
        sum == add(mutexes[m].time, duration)
    IN /\ deltas_sum + duration <= MaxSum
       /\ IF ~(duration > 0) \/ mutexes[m].poisoned
          THEN /\ clock_call' = [op |-> "advance_by", clock |-> c, arg |-> duration,
                                 ok |-> FALSE, value |-> 0,
                                 panic |-> IF ~(duration > 0) THEN "assertion"
                                                              ELSE "poisoned"]
               /\ UNCHANGED <<mutexes, deltas_sum>>
          ELSE /\ clock_call' = [op |-> "advance_by", clock |-> c, arg |-> duration,
                                 ok |-> sum.ok, value |-> 0,
                                 panic |-> IF sum.ok THEN "none" ELSE "overflow"]
               /\ mutexes' = [mutexes EXCEPT ![m] = [time |-> sum.value,
                                                     poisoned |-> ~sum.ok]]
               /\ deltas_sum' = IF sum.ok THEN deltas_sum + duration ELSE deltas_sum
       /\ UNCHANGED <<overflow_checks, current_time, last_read>>
       /\ ClockOnly

\* Clock::now through clock c, from any thread.
now(c) ==
    LET m == current_time[c]
    IN /\ clock_call' = [op |-> "now", clock |-> c, arg |-> 0, ok |-> ~mutexes[m].poisoned,
                         value |-> IF mutexes[m].poisoned THEN 0 ELSE mutexes[m].time,
                         panic |-> IF mutexes[m].poisoned THEN "poisoned" ELSE "none"]
       /\ last_read' = IF mutexes[m].poisoned
                       THEN last_read
                       ELSE [some |-> TRUE, value |-> mutexes[m].time]
       /\ UNCHANGED <<overflow_checks, current_time, mutexes, deltas_sum>>
       /\ ClockOnly

\* advance_to through clock c, from any thread: no test of the timestamp;
\* lock().unwrap() panics on a poisoned mutex.
advance_to(c, time) ==
    LET m == current_time[c]
    IN /\ clock_call' = [op |-> "advance_to", clock |-> c, arg |-> time,
                         ok |-> ~mutexes[m].poisoned, value |-> 0,
                         panic |-> IF mutexes[m].poisoned THEN "poisoned" ELSE "none"]
       /\ mutexes' = IF mutexes[m].poisoned
                     THEN mutexes
                     ELSE [mutexes EXCEPT ![m].time = time]
       /\ UNCHANGED <<overflow_checks, current_time, deltas_sum, last_read>>
       /\ ClockOnly

\* The clock under advance_by calls with the durations given.
AdvanceByIn(durations) ==
    \E c \in 1..Len(current_time), duration \in durations : advance_by(c, duration)

Clone == \E c \in 1..Len(current_time) : clone(c)

Now == \E c \in 1..Len(current_time) : now(c)

\* Positive durations only: the assertion of advance_by never fails.
AdvanceBy == AdvanceByIn(1..I64Max)

NextClock ==
    \/ Clone
    \/ AdvanceBy
    \/ Now

SpecClock == InitClock /\ [][NextClock]_vars

\* The clock under every call: advance_by with a duration, advance_to with a
\* timestamp, of either sign or zero, the ends of the range included.
EdgeValues == {I64Min, -1, 0, 1, I64Max}

AdvanceByAny == AdvanceByIn(EdgeValues)

AdvanceTo == \E c \in 1..Len(current_time), time \in EdgeValues : advance_to(c, time)

NextClockAny ==
    \/ Clone
    \/ AdvanceByAny
    \/ AdvanceTo
    \/ Now

SpecClockAny == InitClock /\ [][NextClockAny]_vars

\* ------------------------------------------------------------------ timer
\* `self.0 - rhs.0` of Sub<NanoTimestamp> for NanoTimestamp: out of range,
\* the subtraction panics in a build with overflow checks and wraps in one
\* without.
sub(time, rhs) ==
    IF time - rhs \in I64
    THEN [ok |-> TRUE, value |-> time - rhs]
    ELSE IF overflow_checks
         THEN [ok |-> FALSE, value |-> 0]
         ELSE [ok |-> TRUE, value |-> Wrap(time - rhs)]

\* The durations of the Timers checked: negative, zero, the smallest
\* positive, the largest.
TimerDurations == {-1, 0, 1, I64Max}

\* ManualClock::new and Timer::new(Box::new(clock.clone()), duration) in
\* either build. The Timer reads the clock through the clone it owns.
InitTimer ==
    /\ new
    /\ post_frames = <<>>
    /\ post_merged = NoPostCall
    /\ overflow_checks \in BOOLEAN
    /\ current_time = <<1, 1>>
    /\ mutexes = <<[time |-> 0, poisoned |-> FALSE]>>
    /\ clock_call = [op |-> "new"]
    /\ deltas_sum = 0
    /\ last_read = NoRead
    /\ NoThreads
    /\ start_time = 0
    /\ timer_duration \in TimerDurations
    /\ timer_call = [op |-> "new", ok |-> TRUE, value |-> 0, timeout |-> FALSE]
    /\ timer_log = NoLog
    /\ NoCalc

\* A call on the Timer: now() of its clock changes nothing.
TimerOnly ==
    /\ ManagerIdle
    /\ UNCHANGED <<clock_vars, thread_vars, calc_vars>>

\* self.clock.now() of the Stopwatch: lock().unwrap() panics on a poisoned
\* mutex.
stopwatch_now == mutexes[current_time[2]]

\* Stopwatch::elapsed: self.clock.now() - self.start_time.
stopwatch_elapsed ==
    IF stopwatch_now.poisoned
    THEN [ok |-> FALSE, value |-> 0]
    ELSE sub(stopwatch_now.time, start_time)

\* Timer::elapsed (Stopwatch::elapsed of its stopwatch).
elapsed ==
    /\ timer_call' = [op |-> "elapsed", ok |-> stopwatch_elapsed.ok,
                      value |-> stopwatch_elapsed.value, timeout |-> FALSE]
    /\ UNCHANGED <<start_time, timer_duration, timer_log>>
    /\ TimerOnly

\* Timer::is_timeout: self.stopwatch.elapsed() >= self.duration.
is_timeout ==
    LET timeout == stopwatch_elapsed.ok /\ stopwatch_elapsed.value >= timer_duration
    IN /\ timer_call' = [op |-> "is_timeout", ok |-> stopwatch_elapsed.ok,
                         value |-> stopwatch_elapsed.value, timeout |-> timeout]
       /\ timer_log' = [timer_log EXCEPT !.timed_out = @ \/ timeout]
       /\ UNCHANGED <<start_time, timer_duration>>
       /\ TimerOnly

\* A reset that reads the clock and keeps the old start_time.
reset_keeps_start_time ==
    /\ timer_call' = [op |-> "reset", ok |-> ~stopwatch_now.poisoned, value |-> 0,
                      timeout |-> FALSE]
    /\ timer_log' = IF stopwatch_now.poisoned
                    THEN timer_log
                    ELSE [timed_out |-> FALSE, time |-> stopwatch_now.time,
                          sum |-> deltas_sum, was_reset |-> TRUE]
    /\ UNCHANGED <<start_time, timer_duration>>
    /\ TimerOnly

\* Timer::reset (Stopwatch::reset of its stopwatch): self.start_time =
\* self.clock.now().
reset ==
    /\ timer_call' = [op |-> "reset", ok |-> ~stopwatch_now.poisoned, value |-> 0,
                      timeout |-> FALSE]
    /\ start_time' = IF stopwatch_now.poisoned THEN start_time ELSE stopwatch_now.time
    /\ timer_log' = IF stopwatch_now.poisoned
                    THEN timer_log
                    ELSE [timed_out |-> FALSE, time |-> stopwatch_now.time,
                          sum |-> deltas_sum, was_reset |-> TRUE]
    /\ UNCHANGED timer_duration
    /\ TimerOnly

\* The Timer on a clock that only advance_by moves.
NextTimer ==
    \/ AdvanceBy
    \/ elapsed
    \/ is_timeout
    \/ reset

SpecTimer == InitTimer /\ [][NextTimer]_vars

\* The Timer on a clock that advance_by and advance_to move: by the largest
\* duration, to zero and to both ends of the range.
AdvanceByEdge == AdvanceByIn({I64Max})

AdvanceToEdge ==
    \E c \in 1..Len(current_time), time \in {I64Min, 0, I64Max} : advance_to(c, time)

NextTimerAny ==
    \/ AdvanceByEdge
    \/ AdvanceToEdge
    \/ elapsed
    \/ is_timeout
    \/ reset

SpecTimerAny == InitTimer /\ [][NextTimerAny]_vars

\* ------------------------------------------------------------- timestamp.rs
\* The functions of NanoTimestamp and NanoDelta, one call each: the call is
\* drawn at the start, the action applies the function.
\*
\* [u8; 8] of an i64: as many bytes as hold the integer's bits.
NumBytes == (TimeBits + ByteBits - 1) \div ByteBits

EncodedBits == NumBytes * ByteBits

Byte == 0..(2 ^ ByteBits - 1)

\* The unsigned integer a little-endian byte sequence spells.
RECURSIVE le_value(_)
le_value(bytes) ==
    IF bytes = <<>> THEN 0 ELSE Head(bytes) + (2 ^ ByteBits) * le_value(Tail(bytes))

\* i64::to_le_bytes: the two's complement image, least significant byte
\* first.
to_le_bytes(x) ==
    [i \in 1..NumBytes |-> ((x % (2 ^ EncodedBits)) \div (2 ^ (ByteBits * (i - 1)))) % (2 ^ ByteBits)]

\* The same bytes, most significant first.
as_le_bytes_big_endian(t) == [i \in 1..NumBytes |-> to_le_bytes(t)[NumBytes + 1 - i]]

\* NanoTimestamp::as_le_bytes.
as_le_bytes(t) == to_le_bytes(t)

\* NanoTimestamp::from_le_bytes (i64::from_le_bytes).
from_le_bytes(bytes) ==
    IF le_value(bytes) >= 2 ^ (EncodedBits - 1)
    THEN le_value(bytes) - 2 ^ EncodedBits
    ELSE le_value(bytes)

\* The calls of as_le_bytes: on every timestamp.
EncodeCalls == {[op |-> "as_le_bytes", t |-> t] : t \in I64}

CalcOnly ==
    /\ ManagerIdle
    /\ UNCHANGED <<clock_vars, thread_vars, timer_vars, calc_input>>

\* t.as_le_bytes(), and from_le_bytes of the bytes it gave.
encode ==
    /\ ~calc_output.called
    /\ calc_input.op = "as_le_bytes"
    /\ calc_output' = [called |-> TRUE, bytes |-> as_le_bytes(calc_input.t),
                       decoded |-> from_le_bytes(as_le_bytes(calc_input.t))]
    /\ CalcOnly

\* The i64 of the unit conversions at its full width. TLC's integers are
\* narrower than the conversion factors, so an integer is written as a sign
\* and a magnitude, the magnitude as its base-256 digits, least significant
\* first and without leading zeros (zero has no digit and no sign).
Radix == 2 ^ 8

RECURSIVE Digits256(_)
Digits256(n) == IF n = 0 THEN <<>> ELSE <<n % Radix>> \o Digits256(n \div Radix)

RECURSIVE Normal(_)
Normal(mag) ==
    IF mag = <<>> THEN <<>>
    ELSE IF mag[Len(mag)] = 0 THEN Normal(SubSeq(mag, 1, Len(mag) - 1))
    ELSE mag

\* a + b + carry of two magnitudes.
RECURSIVE MagAdd(_, _, _)
MagAdd(a, b, carry) ==
    IF a = <<>> /\ b = <<>> THEN (IF carry = 0 THEN <<>> ELSE <<carry>>)
    ELSE LET x == IF a = <<>> THEN 0 ELSE Head(a)
             y == IF b = <<>> THEN 0 ELSE Head(b)
             sum == x + y + carry
         IN <<sum % Radix>> \o MagAdd(IF a = <<>> THEN <<>> ELSE Tail(a),
                                      IF b = <<>> THEN <<>> ELSE Tail(b),
                                      sum \div Radix)

\* a < b of two magnitudes without leading zeros.
RECURSIVE MagLess(_, _)
MagLess(a, b) ==
    IF Len(a) # Len(b) THEN Len(a) < Len(b)
    ELSE IF a = <<>> THEN FALSE
    ELSE IF a[Len(a)] # b[Len(b)] THEN a[Len(a)] < b[Len(b)]
    ELSE MagLess(SubSeq(a, 1, Len(a) - 1), SubSeq(b, 1, Len(b) - 1))

\* a - b - borrow of two magnitudes, a >= b; digit by digit, not normalised.
RECURSIVE MagSubDigits(_, _, _)
MagSubDigits(a, b, borrow) ==
    IF a = <<>> THEN <<>>
    ELSE LET y == IF b = <<>> THEN 0 ELSE Head(b)
             diff == Head(a) - y - borrow
         IN <<diff % Radix>> \o MagSubDigits(Tail(a), IF b = <<>> THEN <<>> ELSE Tail(b),
                                             IF diff < 0 THEN 1 ELSE 0)

MagSub(a, b) == Normal(MagSubDigits(a, b, 0))

\* a * d + carry for one digit d, not normalised.
RECURSIVE MagMulDigit(_, _, _)
MagMulDigit(a, d, carry) ==
    IF a = <<>> THEN (IF carry = 0 THEN <<>> ELSE <<carry>>)
    ELSE LET prod == Head(a) * d + carry
         IN <<prod % Radix>> \o MagMulDigit(Tail(a), d, prod \div Radix)

\* a * b: the schoolbook product.
RECURSIVE MagMul(_, _)
MagMul(a, b) ==
    IF a = <<>> \/ b = <<>> THEN <<>>
    ELSE Normal(MagAdd(MagMulDigit(a, Head(b), 0), <<0>> \o MagMul(a, Tail(b)), 0))

\* The integers.
IntOf(neg, mag) == [neg |-> neg /\ Normal(mag) # <<>>, mag |-> Normal(mag)]

Num(n) == IF n < 0 THEN IntOf(TRUE, Digits256(-n)) ELSE IntOf(FALSE, Digits256(n))

Negated(x) == IntOf(~x.neg, x.mag)

Mult(x, y) == IntOf(x.neg # y.neg, MagMul(x.mag, y.mag))

Plus(x, y) ==
    IF x.neg = y.neg THEN IntOf(x.neg, MagAdd(x.mag, y.mag, 0))
    ELSE IF MagLess(x.mag, y.mag) THEN IntOf(y.neg, MagSub(y.mag, x.mag))
    ELSE IntOf(x.neg, MagSub(x.mag, y.mag))

LessEq(x, y) ==
    IF x.neg # y.neg THEN x.neg
    ELSE IF x.neg THEN ~MagLess(x.mag, y.mag)
    ELSE ~MagLess(y.mag, x.mag)

\* 2 ^ k: k \div 8 zero digits below the digit 2 ^ (k % 8).
PowerOfTwo(k) == IntOf(FALSE, [i \in 1..(k \div 8) |-> 0] \o <<2 ^ (k % 8)>>)

\* i64::MIN and i64::MAX.
I64Bits == 64
i64_MAX == Plus(PowerOfTwo(I64Bits - 1), Num(-1))
i64_MIN == Negated(PowerOfTwo(I64Bits - 1))

\* The wrapping of two's complement arithmetic: the integer of the i64 range
\* that differs from x by a multiple of 2 ^ 64.
wrapping(x) ==
    LET low == Normal(SubSeq(x.mag, 1, IF Len(x.mag) < I64Bits \div 8 THEN Len(x.mag)
                                       ELSE I64Bits \div 8))
        modulus == PowerOfTwo(I64Bits)
        residue == IF x.neg /\ low # <<>> THEN Plus(modulus, IntOf(TRUE, low))
                   ELSE IntOf(FALSE, low)
    IN IF LessEq(residue, i64_MAX) THEN residue ELSE Plus(residue, Negated(modulus))

\* The conversion factors.
NANOS_PER_MICRO == Num(1000)
NANOS_PER_MILLI == Mult(NANOS_PER_MICRO, Num(1000))
NANOS_PER_SECOND == Mult(NANOS_PER_MILLI, Num(1000))
NANOS_PER_MINUTE == Mult(NANOS_PER_SECOND, Num(60))
NANOS_PER_HOUR == Mult(NANOS_PER_MINUTE, Num(60))
NANOS_PER_DAY == Mult(NANOS_PER_HOUR, Num(24))

Units == {"micros", "millis", "secs", "minutes", "hours", "days"}

nanos_per(unit) ==
    CASE unit = "micros" -> NANOS_PER_MICRO
      [] unit = "millis" -> NANOS_PER_MILLI
      [] unit = "secs" -> NANOS_PER_SECOND
      [] unit = "minutes" -> NANOS_PER_MINUTE
      [] unit = "hours" -> NANOS_PER_HOUR
      [] unit = "days" -> NANOS_PER_DAY

\* A checked multiplication that hands out the wrapped product.
checked_mul_wrapping(value, rhs) == [ok |-> TRUE, value |-> wrapping(Mult(value, rhs))]

\* i64::checked_mul: None when the multiplication overflows, that is when
\* the wrapped product is not the product.
checked_mul(value, rhs) ==
    IF wrapping(Mult(value, rhs)) = Mult(value, rhs)
    THEN [ok |-> TRUE, value |-> Mult(value, rhs)]
    ELSE [ok |-> FALSE, value |-> Num(0)]

\* `value * rhs` of the _safe variants: on overflow the multiplication
\* panics in a build with overflow checks and wraps in one without.
mul(value, rhs) ==
    IF wrapping(Mult(value, rhs)) = Mult(value, rhs)
    THEN [ok |-> TRUE, value |-> Mult(value, rhs)]
    ELSE IF overflow_checks
         THEN [ok |-> FALSE, value |-> Num(0)]
         ELSE [ok |-> TRUE, value |-> wrapping(Mult(value, rhs))]

\* from_micros ... from_days of NanoTimestamp, and of NanoDelta, which calls
\* NanoTimestamp's: Err(Overflow) when checked_mul gives None.
from_unit(unit, value) == checked_mul(value, nanos_per(unit))

\* from_micros_safe ... from_days_safe.
from_unit_safe(unit, value) == mul(value, nanos_per(unit))

\* The largest value v with v * factor <= i64::MAX, found bit by bit from the
\* top: the bits bit..0 of digit number d added to base where the product
\* still fits, then the digits below.  The result is never negative; the
\* test of its sign makes each step's value be computed before the next step
\* starts from it.
RECURSIVE LargestBits(_, _, _, _)
LargestBits(base, d, bit, factor) ==
    LET with == Plus(base, PowerOfTwo(8 * d + bit))
        next == IF LessEq(Mult(with, factor), i64_MAX) THEN with ELSE base
    IN IF bit = 0 \/ next.neg THEN next ELSE LargestBits(next, d, bit - 1, factor)

RECURSIVE LargestDigits(_, _, _)
LargestDigits(base, d, factor) ==
    LET next == LargestBits(base, d, 7, factor)
    IN IF d = 0 \/ next.neg THEN next ELSE LargestDigits(next, d - 1, factor)

LargestValue(unit) == LargestDigits(Num(0), I64Bits \div 8 - 1, nanos_per(unit))

\* The values the conversions are called on: the ends of the i64 range, the
\* small numbers of the repository's tests, the powers of two from both sides
\* and with both signs, and for every unit the values around the largest
\* one that converts.
ConvertValues ==
    {i64_MIN, i64_MAX}
        \cup {Num(n) : n \in {0, 1, -1, 2, -2, 24, 60, 1000, 3600}}
        \cup UNION {{PowerOfTwo(k), Negated(PowerOfTwo(k)),
                     Plus(PowerOfTwo(k), Num(-1)), Plus(Negated(PowerOfTwo(k)), Num(1))} :
                    k \in 1..(I64Bits - 2)}
        \cup UNION {{LargestValue(unit), Plus(LargestValue(unit), Num(1)),
                     Negated(LargestValue(unit)), Plus(Negated(LargestValue(unit)), Num(-1))} :
                    unit \in Units}

ConvertCalls ==
    {[op |-> "from_unit", type |-> type, unit |-> unit, value |-> value] :
        type \in {"NanoTimestamp", "NanoDelta"}, unit \in Units, value \in ConvertValues}

\* T::from_<unit>(value) and T::from_<unit>_safe(value).
convert ==
    /\ ~calc_output.called
    /\ calc_input.op = "from_unit"
    /\ calc_output' = [called |-> TRUE,
                       checked |-> from_unit(calc_input.unit, calc_input.value),
                       safe |-> from_unit_safe(calc_input.unit, calc_input.value)]
    /\ CalcOnly

\* A chrono TimeDelta, as its length in nanoseconds: its range is wider than
\* the i64 of nanoseconds, on both sides.
TimeDeltaMin == 2 * I64Min
TimeDeltaMax == 2 * I64Max + 1

\* TimeDelta::num_nanoseconds: None when the length does not fit the i64.
num_nanoseconds(delta) ==
    IF delta \in I64 THEN [some |-> TRUE, value |-> delta] ELSE [some |-> FALSE, value |-> 0]

\* The Add and Sub operators of NanoTimestamp and NanoDelta. Each one is
\* `self.0 + rhs.0` or `self.0 - rhs.0` and returns the bare type; those
\* that take a TimeDelta first read rhs.num_nanoseconds().expect(..).
AddOperators ==
    {"NanoTimestamp + TimeDelta", "NanoTimestamp + NanoTimestamp", "NanoTimestamp + NanoDelta",
     "NanoDelta + TimeDelta", "NanoDelta + NanoDelta"}

SubOperators ==
    {"NanoTimestamp - TimeDelta", "NanoTimestamp - NanoTimestamp", "NanoTimestamp - NanoDelta",
     "NanoDelta - TimeDelta", "NanoDelta - NanoDelta"}

TimeDeltaOperators ==
    {"NanoTimestamp + TimeDelta", "NanoTimestamp - TimeDelta",
     "NanoDelta + TimeDelta", "NanoDelta - TimeDelta"}

Operators == AddOperators \cup SubOperators

\* The operator on the two integers: a value, or a panic (of expect in
\* either build, of the arithmetic in a build with overflow checks).
apply(operator, lhs, rhs) ==
    LET nanos == IF operator \in TimeDeltaOperators
                 THEN num_nanoseconds(rhs)
                 ELSE [some |-> TRUE, value |-> rhs]
    IN IF ~nanos.some THEN [ok |-> FALSE, value |-> 0]
       ELSE IF operator \in AddOperators THEN add(lhs, nanos.value)
       ELSE sub(lhs, nanos.value)

\* The mathematical result of the operator.
exact(operator, lhs, rhs) ==
    IF operator \in AddOperators THEN lhs + rhs ELSE lhs - rhs

\* The calls of the operators: on zero, one, minus one and the ends of the
\* range, and for a TimeDelta also on the lengths next to and at the ends of
\* its own range.
RightOperands(operator) ==
    IF operator \in TimeDeltaOperators
    THEN EdgeValues \cup {TimeDeltaMin, I64Min - 1, I64Max + 1, TimeDeltaMax}
    ELSE EdgeValues

OperatorCalls ==
    UNION {{[op |-> "operator", operator |-> operator, lhs |-> lhs, rhs |-> rhs] :
                lhs \in EdgeValues, rhs \in RightOperands(operator)} :
           operator \in Operators}

\* lhs + rhs or lhs - rhs: the call returns a value or panics; its type has
\* no error to return.
operate ==
    LET result == apply(calc_input.operator, calc_input.lhs, calc_input.rhs)
    IN /\ ~calc_output.called
       /\ calc_input.op = "operator"
       /\ calc_output' = [called |-> TRUE,
                          outcome |-> IF result.ok THEN "value" ELSE "panic",
                          value |-> result.value]
       /\ CalcOnly

\* One call of a function of timestamp.rs, in either build.
InitCalc ==
    /\ new
    /\ post_frames = <<>>
    /\ post_merged = NoPostCall
    /\ overflow_checks \in BOOLEAN
    /\ current_time = <<>>
    /\ mutexes = <<>>
    /\ clock_call = [op |-> "none"]
    /\ deltas_sum = 0
    /\ last_read = NoRead
    /\ NoThreads
    /\ NoTimer
    /\ calc_input \in EncodeCalls \cup ConvertCalls \cup OperatorCalls
    /\ calc_output = NoCalcCall

NextCalc ==
    \/ encode
    \/ convert
    \/ operate

SpecCalc == InitCalc /\ [][NextCalc]_vars

\* ---------------------------------------------------------------- threads
\* Threads on one ManualClock, as in advance_time_across_threads_simplified:
\* every thread owns a clone made before it started. A call is made of the
\* steps the mutex lets other threads come between: the call, taking the
\* lock, the read of *time, the write to *time (with which the guard is
\* dropped and the call returns).
IdleThread ==
    [pc |-> "idle", op |-> "none", arg |-> 0, floor |-> 0, local |-> 0, seen |-> 0,
     calls |-> 0]

InitThreads ==
    /\ new
    /\ post_frames = <<>>
    /\ post_merged = NoPostCall
    /\ overflow_checks \in BOOLEAN
    /\ current_time = [th \in 1..MaxThreads |-> 1]
    /\ mutexes = <<[time |-> 0, poisoned |-> FALSE]>>
    /\ clock_call = [op |-> "new"]
    /\ deltas_sum = 0
    /\ last_read = NoRead
    /\ threads = [th \in 1..MaxThreads |-> IdleThread]
    /\ versions = NoVersions
    /\ NoTimer
    /\ NoCalc

\* A step of a thread.
ThreadsOnly ==
    /\ ManagerIdle
    /\ UNCHANGED <<overflow_checks, current_time, clock_call, last_read, timer_vars,
                   calc_vars>>

\* Thread th holds the MutexGuard of the mutex of its clone.
holds(th) == threads[th].pc \in {"locked", "loaded"}

\* Mutex::lock returns only when no other thread holds the guard.
lock(th) ==
    \A other \in 1..Len(threads) :
        ~(other # th /\ holds(other) /\ current_time[other] = current_time[th])

\* Thread th enters advance_by, advance_to or now. floor is the number of
\* writes whose calls had returned by then.
thread_call(th, op, arg) ==
    /\ threads[th].pc = "idle"
    /\ threads[th].calls < MaxCalls
    /\ threads' = [threads EXCEPT ![th] = [@ EXCEPT !.pc = "called", !.op = op,
                                                     !.arg = arg,
                                                     !.floor = versions.returned,
                                                     !.calls = @ + 1]]
    /\ UNCHANGED <<mutexes, deltas_sum, versions>>
    /\ ThreadsOnly

\* The assertion of advance_by, then lock().unwrap().
thread_lock(th) ==
    /\ threads[th].pc = "called"
    /\ IF threads[th].op = "advance_by" /\ ~(threads[th].arg > 0)
       THEN threads' = [threads EXCEPT ![th].pc = "panicked"]
       ELSE /\ lock(th)
            /\ threads' = [threads EXCEPT ![th].pc =
                               IF mutexes[current_time[th]].poisoned THEN "panicked"
                                                                     ELSE "locked"]
    /\ UNCHANGED <<mutexes, deltas_sum, versions>>
    /\ ThreadsOnly

\* The read of *time under the guard: the value now() returns, the left
\* operand of the addition of advance_by.
thread_load(th) ==
    /\ threads[th].pc = "locked"
    /\ threads[th].op \in {"advance_by", "now"}
    /\ threads' = [threads EXCEPT ![th] = [@ EXCEPT
                       !.pc = IF threads[th].op = "now" THEN "idle" ELSE "loaded",
                       !.local = mutexes[current_time[th]].time,
                       !.seen = versions.applied]]
    /\ UNCHANGED <<mutexes, deltas_sum, versions>>
    /\ ThreadsOnly

\* The write to *time under the guard; the call returns. The addition of
\* advance_by panics on overflow in a build with overflow checks: the guard
\* is dropped during the panic, and the mutex is poisoned.
thread_store(th) ==
    LET m == current_time[th]
        t == threads[th]
        sum == add(t.local, t.arg)
    IN /\ \/ t.pc = "loaded" /\ t.op = "advance_by"
          \/ t.pc = "locked" /\ t.op = "advance_to"
       /\ IF t.op = "advance_by" /\ ~sum.ok
          THEN /\ threads' = [threads EXCEPT ![th].pc = "panicked"]
               /\ mutexes' = [mutexes EXCEPT ![m].poisoned = TRUE]
               /\ UNCHANGED <<deltas_sum, versions>>
          ELSE /\ threads' = [threads EXCEPT ![th].pc = "idle"]
               /\ mutexes' = [mutexes EXCEPT ![m].time =
                                  IF t.op = "advance_by" THEN sum.value ELSE t.arg]
               /\ deltas_sum' = IF t.op = "advance_by" THEN deltas_sum + t.arg
                                                       ELSE deltas_sum
               /\ versions' = [applied |-> versions.applied + 1,
                               returned |-> versions.applied + 1,
                               set |-> versions.set \/ t.op = "advance_to"]
       /\ ThreadsOnly

\* What the threads call: advance_by with a duration that fails the
\* assertion, a small one and the largest one, advance_to, now.
ThreadCalls ==
    {<<"advance_by", d>> : d \in {0, 1, I64Max}} \cup {<<"advance_to", 0>>, <<"now", 0>>}

ThreadCall == \E th \in 1..Len(threads), call \in ThreadCalls : thread_call(th, call[1], call[2])

ThreadLock == \E th \in 1..Len(threads) : thread_lock(th)

ThreadLoad == \E th \in 1..Len(threads) : thread_load(th)

ThreadStore == \E th \in 1..Len(threads) : thread_store(th)

NextThreads ==
    \/ ThreadCall
    \/ ThreadLock
    \/ ThreadLoad
    \/ ThreadStore

SpecThreads == InitThreads /\ [][NextThreads]_vars

\* ------------------------------------------------------------------ claims
IsTick(call) == call.op = "on_raw_input_update"

RECURSIVE AllEvents(_)
AllEvents(frames) ==
    IF frames = <<>> THEN <<>> ELSE Head(frames).events \o AllEvents(Tail(frames))

\* frame_events holds a session read from a file (not one being recorded).
HoldsLoadedSession == is_replaying /\ loaded_session # <<>>

\* C1: is_recording and is_replaying are never both true.
C1_NeverRecordingAndReplaying == ~(is_recording /\ is_replaying)

\* C2: while a loaded session of n >= 1 frames is replayed, the tick at
\* replay_index k-1 hands the host exactly the k-th loaded frame's events; the
\* n-th such tick ends the replay and closes the window; a tick of a manager
\* that is not replaying leaves the host's batch alone.
C2_ReplayDeliversLoadedFrames ==
    [][IsTick(last_call') =>
          /\ (is_replaying /\ Len(loaded_session) >= 1) =>
                /\ raw_input_write' = WriteOf(loaded_session[replay_index + 1].events)
                /\ IF replay_index + 1 = Len(loaded_session)
                   THEN ~is_replaying' /\ ~is_window_open'
                   ELSE is_replaying' /\ replay_index' = replay_index + 1
          /\ ~is_replaying => raw_input_write' = NoWrite]_vars

\* The last frame of a three-frame session has just been delivered and the
\* replay has closed its window.
C2_Witness ==
    /\ IsTick(last_call) /\ last_call.replayed
    /\ raw_input_write = WriteOf(LoadFrame(3).events)
    /\ ~is_replaying /\ ~is_window_open

\* C3: a tick that begins with is_replaying true and holds a toggle press
\* neither starts a recording nor stops one (nothing is saved).
C3_ReplayIgnoresToggle ==
    [][(is_replaying /\ IsTick(last_call') /\ last_call'.presses >= 1) =>
          /\ is_recording' => is_recording
          /\ storage_writes' = <<>>
          /\ ~panicked']_vars

\* The load of 'Start replay' fails as C4 describes: the file cannot be
\* opened, its name ends in neither .bin nor .json, or it does not decode.
LoadFails(path, call) ==
    \/ path = EmptyPath
    \/ ~call.file_exists
    \/ path.ext \notin {"bin", "json"}
    \/ call.file_format # path.ext

\* C4: a 'Start replay' whose load fails (and no 'Close' click in the same
\* frame) leaves is_replaying false, the window open, and frame_events,
\* replay_index and is_recording as they were.
C4_FailedLoadChangesNothing ==
    [][(/\ last_call'.op = "on_frame_update"
        /\ last_call'.start /\ ~last_call'.close
        /\ LoadFails(replay_file', last_call')) =>
          /\ ~is_replaying' /\ is_window_open'
          /\ frame_events' = frame_events
          /\ replay_index' = replay_index
          /\ is_recording' = is_recording]_vars

\* 'Start replay' on notes.txt, which holds a well-formed binary session,
\* while a recording is in progress.
C4_Witness ==
    /\ last_call.op = "on_frame_update" /\ last_call.start /\ ~last_call.close
    /\ replay_file = NotesTxt /\ last_call.file_format = "bin"
    /\ is_window_open /\ ~is_replaying /\ is_recording /\ frame_events # <<>>

\* C5: in a tick not consumed by replay is_recording ends up flipped once per
\* toggle press of the batch.
C5_EveryPressFlips ==
    [][(IsTick(last_call') /\ ~last_call'.replayed) =>
          is_recording' = (IF last_call'.presses % 2 = 1 THEN ~is_recording ELSE is_recording)]_vars

\* C6: a tick in which a toggle press turns recording on leaves the anchor
\* frame {now, [PointerMoved(0,0)]} first in the buffer, followed by nothing
\* but this tick's own frame; a batch of the toggle press alone leaves exactly
\* the anchor frame.
C6_StartSeedsAnchor ==
    [][(/\ IsTick(last_call') /\ ~last_call'.replayed /\ ~panicked'
        /\ \/ last_call'.presses >= 2
           \/ last_call'.presses = 1 /\ ~is_recording) =>
          /\ frame_events' # <<>>
          /\ frame_events'[1] = AnchorFrame(last_call'.now)
          /\ Len(frame_events') <= 2
          /\ last_call'.len = 1 => frame_events' = <<AnchorFrame(last_call'.now)>>]_vars

\* A tick at time 1 stopped a recording (saving it) and started the next one.
C6_Witness ==
    /\ IsTick(last_call) /\ last_call.presses = 2 /\ last_call.now = 1
    /\ is_recording /\ storage_writes # <<>>
    /\ Len(storage_writes[1].frames) >= 2
    /\ frame_events = <<AnchorFrame(1)>>

\* C7: no frame of a buffer that recording filled holds an F1 key event or a
\* MouseMoved.
C7_NoToggleNoMouseMoved ==
    HoldsLoadedSession \/
    \A i \in 1..Len(frame_events) : \A j \in 1..Len(frame_events[i].events) :
        /\ ~is_f1_key(frame_events[i].events[j])
        /\ frame_events[i].events[j].type # "MouseMoved"

\* A recording got a batch of an F1 release or MouseMoved and one more event,
\* and appended a frame for it.
C7_Witness ==
    /\ IsTick(last_call) /\ ~last_call.replayed
    /\ last_call.len = 2 /\ last_call.dropped = 1 /\ last_call.presses = 0
    /\ is_recording /\ Len(frame_events) >= 2
    /\ Len(frame_events[Len(frame_events)].events) = 1

\* The pointer-moves of the input that the filter let through: those of the
\* log that are not the fake ones pushed with a pointer button.
CountType(events, type) == Cardinality({i \in 1..Len(events) : events[i].type = type})
MovesKept(log) == CountType(log, "PointerMoved") - CountType(log, "PointerButton")

\* C8 as stated: during a recording the pointer-moves let through are one per
\* run, a run being ended by any event that is not a pointer-move.
C8_FirstOfEveryRun == is_recording => MovesKept(recorded_log) = pointer_runs.any_runs

\* The same with a run ended only by an event that is neither a pointer-move,
\* nor MouseMoved, nor an F1 key event: one pointer-move let through per run
\* of the recording's input.
C8_FirstOfEveryKeptRun == is_recording => MovesKept(recorded_log) = pointer_runs.kept_runs

\* What the filter does keep for such runs: never more than the first event of
\* a run, and the first event of every run but at most one of the recording.
C8_AtMostFirstOfEveryKeptRun ==
    is_recording =>
        /\ MovesKept(recorded_log) <= pointer_runs.kept_runs
        /\ MovesKept(recorded_log) >= pointer_runs.kept_runs - 1

\* C9: during a recording every pointer-button event of the buffer comes
\* right after a PointerMoved to its position, in the same frame.
C9_ButtonAfterMove ==
    (is_recording /\ ~HoldsLoadedSession) =>
    \A i \in 1..Len(frame_events) : \A j \in 1..Len(frame_events[i].events) :
        frame_events[i].events[j].type = "PointerButton" =>
            /\ j > 1
            /\ frame_events[i].events[j - 1] = PointerMoved(frame_events[i].events[j].pos)

\* A recording holds a frame with a pointer button.
C9_Witness ==
    /\ is_recording /\ ~HoldsLoadedSession
    /\ \E i \in 1..Len(frame_events) : \E j \in 1..Len(frame_events[i].events) :
           frame_events[i].events[j].type = "PointerButton"

\* C10: the session saved by the single toggle press of a tick holds, after
\* the anchor, every event pushed since the recording started.
C10_SavedSessionIsComplete ==
    (/\ IsTick(last_call) /\ ~last_call.replayed /\ last_call.presses = 1
     /\ storage_writes # <<>> /\ ~panicked) =>
        AllEvents(Tail(storage_writes[1].frames)) = recorded_log

\* C11: after a tick in which the last toggle press stopped a recording the
\* buffer is empty.
C11_StopClearsBuffer ==
    [][(/\ IsTick(last_call') /\ ~last_call'.replayed /\ ~panicked'
        /\ last_call'.presses >= 1 /\ ~is_recording') =>
          frame_events' = <<>>]_vars

\* apply_event_postprocessing has returned its result.
PostDone == post_merged.called /\ ~post_merged.panicked

\* C12: the events of the output frames, concatenated, are the events of the
\* input frames, concatenated (same number, same order).
C12_MergeKeepsEvents ==
    PostDone => AllEvents(post_merged.frames) = AllEvents(post_frames)

\* Three input frames with four events or more came out as two frames.
C12_Witness ==
    /\ PostDone
    /\ Len(post_frames) = 3 /\ Len(post_merged.frames) = 2
    /\ Len(AllEvents(post_frames)) >= 4

\* All events of a frame have the same pointer-move classification.
SameClass(events) ==
    \A i, j \in 1..Len(events) : is_pointer_moved(events[i]) = is_pointer_moved(events[j])

\* C13: the output frames after the first are the maximal same-classification
\* runs of the events of the input frames after the first: together they hold
\* those events in order, each is non-empty and of one classification, and two
\* neighbours differ in classification.
C13_MaximalRuns ==
    PostDone =>
        LET out == Tail(post_merged.frames)
        IN /\ AllEvents(out) = AllEvents(Tail(post_frames))
           /\ \A k \in 1..Len(out) : out[k].events # <<>> /\ SameClass(out[k].events)
           /\ \A k \in 1..(Len(out) - 1) :
                  is_pointer_moved(out[k].events[1]) # is_pointer_moved(out[k + 1].events[1])

\* Two input frames of mixed classification each, the second continuing the
\* run the first ends with: three output frames after the first.
C13_Witness ==
    /\ PostDone
    /\ Len(post_frames) = 3
    /\ ~SameClass(post_frames[2].events) /\ ~SameClass(post_frames[3].events)
    /\ Len(post_merged.frames) = 4

\* C14: the first output frame is the first input frame, time and events,
\* whatever follows it.
C14_FirstFrameUntouched ==
    PostDone => post_merged.frames[1] = post_frames[1]

\* The first frame holds a pointer-move and the next frame starts with one.
C14_Witness ==
    /\ PostDone
    /\ Len(post_frames) >= 2
    /\ post_frames[1] = FrameEvents(0, <<PointerMoved(Origin)>>)
    /\ post_frames[2].events # <<>> /\ is_pointer_moved(post_frames[2].events[1])
    /\ Len(post_merged.frames) >= 2

\* The input frame that holds the n-th event of the concatenated input.
RECURSIVE OriginOf(_, _)
OriginOf(frames, n) ==
    IF n <= Len(Head(frames).events) THEN 1
    ELSE 1 + OriginOf(Tail(frames), n - Len(Head(frames).events))

\* The number of events in the frames before the k-th.
EventsBefore(frames, k) == Len(AllEvents(SubSeq(frames, 1, k - 1)))

\* Two pointer-moves of one output frame come from one input frame.
PointerMovesPerTick(input, output) ==
    \A k \in 1..Len(output) :
        LET events == output[k].events
            base == EventsBefore(output, k)
        IN \A i, j \in 1..Len(events) :
               (is_pointer_moved(events[i]) /\ is_pointer_moved(events[j])) =>
                   OriginOf(input, base + i) = OriginOf(input, base + j)

\* C15: in the session saved when a tick that holds only the toggle press
\* stops a recording, two pointer-moves of one frame were recorded in one
\* frame (tick) of the buffer.
C15_PointerMovesStayPerTick ==
    [][(/\ IsTick(last_call') /\ ~last_call'.replayed /\ ~panicked'
        /\ last_call'.len = 1 /\ last_call'.presses = 1 /\ is_recording) =>
          /\ storage_writes' # <<>>
          /\ PointerMovesPerTick(frame_events, storage_writes'[1].frames)]_vars

\* C16: a tick that is not consumed by replay leaves the host's event batch as
\* it got it (no assignment to raw_input.events), the toggle press included.
C16_LiveBatchForwarded ==
    [][(IsTick(last_call') /\ ~last_call'.replayed) => raw_input_write' = NoWrite]_vars

\* A tick of two events, one of them the toggle press, stopped a recording and
\* saved it; the host's batch was left alone.
C16_Witness ==
    /\ IsTick(last_call) /\ ~last_call.replayed
    /\ last_call.len = 2 /\ last_call.presses = 1
    /\ ~is_recording /\ storage_writes # <<>>
    /\ RawInputAfter(<<KeyA, F1Press>>) = <<KeyA, F1Press>>

\* The frames are ordered by non-decreasing time.
Sorted(frames) == \A i \in 1..(Len(frames) - 1) : frames[i].time <= frames[i + 1].time

\* C17: under a host whose now never decreases, the buffer of a recording is
\* ordered by non-decreasing time at every point, and so is every frame list
\* written at stop.
C17_FramesOrderedByTime ==
    /\ (is_recording /\ ~HoldsLoadedSession) => Sorted(frame_events)
    /\ \A w \in 1..Len(storage_writes) : Sorted(storage_writes[w].frames)

\* A recording started at time 0 was saved at time 1 with frames of both times.
C17_Witness ==
    /\ IsTick(last_call) /\ last_call.now = 1 /\ storage_writes # <<>>
    /\ Len(storage_writes[1].frames) >= 3
    /\ storage_writes[1].frames[1].time = 0
    /\ storage_writes[1].frames[Len(storage_writes[1].frames)].time = 1

\* C18: a file written when a recording stops is named by the time of the
\* first (anchor) frame of the session it holds, the capture start time.
C18_FileNamedByStartTime ==
    \A w \in 1..Len(storage_writes) :
        storage_writes[w].format # "garbage" =>
            storage_writes[w].file_name =
                event_logfile(storage_writes[w].frames[1].time, record_use_bincode)

\* The files of dir whose name starts with the prefix.
Matching(dir) == {p \in dir : p.prefix = UI_EVENTS_FILE_PREFIX}

\* C19: the first on_frame_update of an open window after open_window sets
\* replay_file to the smallest matching path of the directory, or keeps it
\* when there is none; every later one leaves replay_file alone (only the
\* user's edit changes it); open_window makes the lookup due again.
C19_LookupOncePerOpen ==
    [][/\ (last_call'.op = "on_frame_update" /\ is_window_open) =>
            /\ ~should_lookup_replay'
            /\ (should_lookup_replay /\ ~last_call'.edited) =>
                   IF Matching(last_call'.dir) = {}
                   THEN replay_file' = replay_file
                   ELSE /\ replay_file' \in Matching(last_call'.dir)
                        /\ \A q \in Matching(last_call'.dir) : ~PathLess(q, replay_file')
            /\ (~should_lookup_replay /\ ~last_call'.edited) => replay_file' = replay_file
       /\ last_call'.op = "open_window" => should_lookup_replay'
       /\ last_call'.op \notin {"on_frame_update", "open_window"} =>
              /\ replay_file' = replay_file
              /\ should_lookup_replay' = should_lookup_replay]_vars

\* The lookup has picked the file saved at 1 ns in binary out of a directory
\* that also holds the JSON file of 1 ns and the file of 1000 ns.
C19_Witness ==
    /\ last_call.op = "on_frame_update" /\ ~last_call.edited
    /\ {event_logfile(1, FALSE), event_logfile(1, TRUE), event_logfile(1000, TRUE)}
           \subseteq last_call.dir
    /\ event_logfile(0, TRUE) \notin last_call.dir
    /\ replay_file = event_logfile(1, TRUE)
    /\ ~should_lookup_replay

\* C20: on a ManualClock made at zero and advanced only by advance_by calls
\* with positive durations, through any of its clones, every now() that
\* returns gives the sum of the durations applied so far, and no less than
\* the now() before it gave.
C20_ReadsSumOfDeltas ==
    [][(clock_call'.op = "now" /\ clock_call'.ok)
       => /\ clock_call'.value = deltas_sum
          /\ last_read.some => last_read.value <= clock_call'.value]_vars

\* The value the clock's mutex guards, as read through clock c.
TimeOf(ms, c) == ms[current_time[c]].time

\* C21: advance_by with a duration <= 0 fails its assertion and leaves the
\* clock as it was; advance_to sets the clock to the timestamp given,
\* whatever the timestamp and the clock's value, an earlier one included.
C21_AssertsAndSetsUnconditionally ==
    [][/\ (clock_call'.op = "advance_by" /\ clock_call'.arg <= 0)
          => /\ clock_call'.panic = "assertion"
             /\ mutexes' = mutexes
       /\ clock_call'.op = "advance_to"
          => /\ clock_call'.ok
             /\ TimeOf(mutexes', clock_call'.clock) = clock_call'.arg]_vars

\* The same, for the calls that find the mutex not poisoned.
C21_UnlessPoisoned ==
    [][/\ (clock_call'.op = "advance_by" /\ clock_call'.arg <= 0)
          => /\ clock_call'.panic = "assertion"
             /\ mutexes' = mutexes
       /\ (clock_call'.op = "advance_to" /\ clock_call'.panic # "poisoned")
          => /\ clock_call'.ok
             /\ TimeOf(mutexes', clock_call'.clock) = clock_call'.arg]_vars

\* No thread is inside a call, and none has panicked.
AllReturned == \A th \in 1..Len(threads) : threads[th].pc = "idle"

\* C22: a now() that starts after a write has returned reads that write or a
\* later one; and once every call has returned, with advance_by the only
\* writer, the clock holds the sum of the durations of all the calls.
C22_Linearizable ==
    /\ \A th \in 1..Len(threads) :
           (threads[th].pc = "idle" /\ threads[th].op = "now")
               => threads[th].seen >= threads[th].floor
    /\ (threads # <<>> /\ AllReturned /\ ~versions.set)
           => mutexes[1].time = deltas_sum

\* The same, as long as the sum of the durations is within the range.
C22_WithinRange ==
    /\ \A th \in 1..Len(threads) :
           (threads[th].pc = "idle" /\ threads[th].op = "now")
               => threads[th].seen >= threads[th].floor
    /\ (threads # <<>> /\ AllReturned /\ ~versions.set /\ deltas_sum <= I64Max)
           => mutexes[1].time = deltas_sum

\* The step is a call of op on the Timer that returns.
TimerReturns(op) == timer_call'.op = op /\ timer_call'.ok /\ UNCHANGED clock_vars

\* C23: is_timeout() is false when elapsed() is less than the duration and
\* true when it is equal or greater; and on a clock that only advance_by
\* moves, is_timeout() of a Timer that is not reset stays true once it has
\* been true.
C23_TimeoutLatches ==
    [][TimerReturns("is_timeout")
       => /\ timer_call'.timeout = (stopwatch_elapsed.value >= timer_duration)
          /\ timer_log.timed_out => timer_call'.timeout]_vars

\* The same, as long as the sum of the advance_by durations is within the
\* range.
C23_WithinRange ==
    [][(TimerReturns("is_timeout") /\ deltas_sum <= I64Max)
       => /\ timer_call'.timeout = (stopwatch_elapsed.value >= timer_duration)
          /\ timer_log.timed_out => timer_call'.timeout]_vars

\* The Timer has been reset, and no call has touched the clock since the
\* last reset returned.
JustReset ==
    /\ timer_log.was_reset
    /\ ~stopwatch_now.poisoned
    /\ stopwatch_now.time = timer_log.time
    /\ deltas_sum = timer_log.sum

\* elapsed() returns zero, is_timeout() returns false.
ReadsAsFresh ==
    /\ timer_call'.ok
    /\ timer_call'.value = 0
    /\ ~timer_call'.timeout

\* C24 as stated: whatever the Timer's duration and the clock's history, right
\* after reset() and before the clock changes, elapsed() is zero and
\* is_timeout() is false.
C24_ResetClearsEveryTimer ==
    [][(JustReset /\ UNCHANGED clock_vars /\ timer_call'.op \in {"elapsed", "is_timeout"})
       => ReadsAsFresh]_vars

\* C24: for a Timer with a positive duration, whatever the clock's history,
\* right after reset() and before the clock changes, elapsed() is zero and
\* is_timeout() is false.
C24_ResetClearsPositiveTimer ==
    [][(/\ timer_duration > 0
        /\ JustReset /\ UNCHANGED clock_vars
        /\ timer_call'.op \in {"elapsed", "is_timeout"})
       => ReadsAsFresh]_vars

\* is_timeout() has answered right after a reset that followed a timeout
\* and a jump of the clock.
C24_Witness ==
    /\ timer_duration > 0
    /\ JustReset
    /\ timer_call.op = "is_timeout" /\ timer_call.ok /\ ~timer_call.timeout
    /\ start_time > timer_duration
    /\ clock_call.op = "advance_to"

\* C25: elapsed() returns the clock's value minus the value the clock had
\* when the Stopwatch was made or last reset (zero right after either, and
\* after a reset only the time since that reset).
C25_ElapsedIsNowMinusStart ==
    [][(timer_call'.op = "elapsed" /\ UNCHANGED clock_vars)
       => /\ timer_call'.ok
          /\ timer_call'.value = stopwatch_now.time - timer_log.time]_vars

\* The same, for the calls that find the mutex not poisoned and the
\* difference within the range.
C25_WithinRange ==
    [][(/\ timer_call'.op = "elapsed" /\ UNCHANGED clock_vars
        /\ ~stopwatch_now.poisoned
        /\ stopwatch_now.time - timer_log.time \in I64)
       => /\ timer_call'.ok
          /\ timer_call'.value = stopwatch_now.time - timer_log.time]_vars

\* C26: from_le_bytes(t.as_le_bytes()) is t for every timestamp t, and
\* as_le_bytes(t) is the little-endian two's complement encoding of t: one
\* byte per place, the least significant first, the sign in the top bit of
\* the last.
C26_BytesRoundTrip ==
    (calc_output.called /\ calc_input.op = "as_le_bytes")
        => /\ calc_output.decoded = calc_input.t
           /\ Len(calc_output.bytes) = NumBytes
           /\ \A i \in 1..NumBytes : calc_output.bytes[i] \in Byte
           /\ calc_output.bytes[1] = calc_input.t % (2 ^ ByteBits)
           /\ (calc_output.bytes[NumBytes] >= 2 ^ (ByteBits - 1)) = (calc_input.t < 0)

\* The smallest timestamp but one has been encoded and decoded.
C26_Witness ==
    /\ calc_output.called /\ calc_input.op = "as_le_bytes"
    /\ calc_input.t = I64Min + 1
    /\ calc_output.bytes[1] # calc_output.bytes[NumBytes]

\* C27: a checked conversion from_<unit>(value) returns the Overflow error
\* exactly when value times the unit's nanoseconds does not fit a signed
\* 64-bit integer; otherwise it returns that product, as the _safe variant
\* does.
C27_CheckedConversions ==
    (calc_output.called /\ calc_input.op = "from_unit")
        => LET product == Mult(calc_input.value, nanos_per(calc_input.unit))
           IN /\ calc_output.checked.ok = (LessEq(i64_MIN, product) /\ LessEq(product, i64_MAX))
              /\ calc_output.checked.ok
                    => /\ calc_output.checked.value = product
                       /\ calc_output.safe.ok
                       /\ calc_output.safe.value = product

\* The largest number of hours that converts has been converted (the next
\* number does not convert).
C27_Witness ==
    /\ calc_output.called /\ calc_input.op = "from_unit"
    /\ calc_input.unit = "hours" /\ calc_input.type = "NanoDelta"
    /\ calc_input.value = LargestValue("hours")
    /\ calc_output.checked.ok
    /\ ~from_unit("hours", Plus(calc_input.value, Num(1))).ok

\* The operators C28 names: those on NanoTimestamp and NanoDelta alone.
NanoOperators ==
    {"NanoTimestamp + NanoDelta", "NanoTimestamp - NanoDelta",
     "NanoTimestamp - NanoTimestamp", "NanoDelta + NanoDelta", "NanoDelta - NanoDelta"}

\* C28: an addition or subtraction of timestamps and deltas whose result
\* does not fit the integer is reported as an Overflow error, and a call that
\* returns a value returns the exact one (never a wrapped or clamped one).
C28_OverflowIsReported ==
    (calc_output.called /\ calc_input.op = "operator"
     /\ calc_input.operator \in NanoOperators)
        => LET result == exact(calc_input.operator, calc_input.lhs, calc_input.rhs)
           IN /\ result \notin I64 => calc_output.outcome = "Overflow"
              /\ calc_output.outcome = "value" => calc_output.value = result

\* The same, for operands and results that fit.
C28_WithinRange ==
    (/\ calc_output.called /\ calc_input.op = "operator"
     /\ calc_input.rhs \in I64
     /\ exact(calc_input.operator, calc_input.lhs, calc_input.rhs) \in I64)
        => /\ calc_output.outcome = "value"
           /\ calc_output.value = exact(calc_input.operator, calc_input.lhs, calc_input.rhs)

\* C29: in every reachable state 0 <= replay_index <= frame_events.len().
C29_ReplayIndexInBounds ==
    /\ 0 <= replay_index
    /\ replay_index <= Len(frame_events)

\* A replay stands before the last frame of a loaded session of three.
C29_Witness ==
    /\ is_replaying
    /\ replay_index = 2
    /\ Len(frame_events) = 3

\* C30: every output frame of apply_event_postprocessing after the first
\* carries the time of the input frame that held the first event of its run,
\* also when later events of the run come from frames with other times.
C30_RunTakesFirstTime ==
    PostDone =>
        LET input == Tail(post_frames)
            out == Tail(post_merged.frames)
        IN \A k \in 1..Len(out) :
               out[k].time = input[OriginOf(input, EventsBefore(out, k) + 1)].time

\* A run of two events is opened in a frame with time 0 and continued in a
\* frame with time 1.
C30_Witness ==
    /\ PostDone
    /\ Len(post_frames) = 3
    /\ post_frames[2] = FrameEvents(0, <<KeyA>>)
    /\ post_frames[3] = FrameEvents(1, <<KeyA>>)
    /\ post_merged.frames = <<post_frames[1], FrameEvents(0, <<KeyA, KeyA>>)>>

\* C31: while is_replaying is true frame_events is the session that the
\* replay start loaded: as many frames, each with its time and its events.
C31_LoadedSessionFixed ==
    is_replaying => frame_events = loaded_session

\* While a loaded session of at least one frame is replayed, frame_events
\* keeps its length and every frame's time, and the frames not yet replayed
\* keep their events.
C31_UnreplayedFramesFixed ==
    HoldsLoadedSession =>
        /\ Len(frame_events) = Len(loaded_session)
        /\ \A k \in 1..Len(frame_events) :
               /\ frame_events[k].time = loaded_session[k].time
               /\ k > replay_index => frame_events[k] = loaded_session[k]
               /\ k <= replay_index => frame_events[k].events = <<>>

\* C32: apply_event_postprocessing is never called on an empty frame list:
\* whenever a toggle press would stop a recording (is_recording, and the tick
\* not consumed by replay) frame_events is not empty.
C32_StopNeverOnEmptyBuffer ==
    (is_recording /\ ~ReplayDue /\ ~panicked) => frame_events # <<>>

\* A recording has an empty buffer only after 'Start replay' loaded a session
\* of zero frames over it.
C32_EmptyOnlyUnderEmptyReplay ==
    (is_recording /\ frame_events = <<>>) => (is_replaying /\ loaded_session = <<>>)

\* C33: every replay that starts ends: when the host keeps calling
\* on_raw_input_update and the user does nothing more, is_replaying leads to
\* ~is_replaying, whatever session was loaded (one of zero frames too).
C33_ReplayEnds == is_replaying ~> ~is_replaying

\* A replay of a loaded session of at least one frame ends.
C33_NonEmptyReplayEnds == HoldsLoadedSession ~> ~is_replaying

\* C34: in every reachable state is_replaying implies is_window_open.
C34_ReplayingImpliesWindowOpen == is_replaying => is_window_open

\* The first frame of a loaded session has been replayed, the window is
\* still open and the replay goes on.
C34_Witness ==
    /\ IsTick(last_call) /\ last_call.replayed
    /\ is_replaying /\ is_window_open
    /\ replay_index = 1

\* C35: in every recording, a second or later one too, the first pointer-move
\* received after the toggle press that started it is recorded: once a
\* pointer-move has been received in the recording, the events pushed since
\* its start hold a pointer-move taken from the input.
C35_FirstMoveOfSessionKept ==
    (is_recording /\ pointer_runs.any_runs >= 1) => MovesKept(recorded_log) >= 1

\* The events of the frames after the first (after the anchor, in the buffer
\* of a recording).
EventsAfterAnchor(frames) == IF frames = <<>> THEN <<>> ELSE AllEvents(Tail(frames))

\* C36: every event the buffer of a recording holds after the anchor was
\* pushed for an input event received after the toggle press that started
\* the recording: the buffer's events are the first of the events pushed
\* since that press, in order.
C36_OnlyEventsSinceStart ==
    (is_recording /\ ~HoldsLoadedSession) =>
        LET held == EventsAfterAnchor(frame_events)
        IN /\ Len(held) <= Len(recorded_log)
           /\ held = SubSeq(recorded_log, 1, Len(held))

\* A file of the list holds a session (it is not what a failed save left).
WroteSession(files) == \E w \in 1..Len(files) : files[w].format # "garbage"

\* C37: whenever is_recording goes from true to false, by whatever operation,
\* the call that does it writes the buffered session to storage.
C37_SaveFollowsEveryStop ==
    [][(is_recording /\ ~is_recording') => WroteSession(storage_writes')]_vars

\* A tick that returns and leaves a recording stopped has written a file.
C37_ToggleStopSaves ==
    [][(/\ is_recording /\ ~is_recording'
        /\ IsTick(last_call') /\ ~last_call'.replayed /\ ~panicked') =>
          WroteSession(storage_writes')]_vars

====
